---------------------------- MODULE Spec2Model ----------------------------
(***************************************************************************)
(* A model of the message orchestration layer and of the synthesis         *)
(* pipeline of cognitex.v2.                                                *)
(*                                                                         *)
(*   app/orchestrator/message.py              Message, create_reply, ...   *)
(*   app/orchestrator/simple_orchestrator.py  SimpleOrchestrator           *)
(*   app/agents/base_agent.py                 BaseAgent (default adapter)  *)
(*   app/agents/email_agent.py                EmailAgent.handle_message    *)
(*   app/agents/proactive_synthesis_agent.py  the synthesis cycle          *)
(*                                                                         *)
(* The program runs on one asyncio event loop.  A task runs alone from one *)
(* await that really suspends to the next one, so an action of the model   *)
(* is the code between two such awaits.  The awaits that suspend are       *)
(* asyncio.sleep, asyncio.wait_for on a future, the wait for an agent's    *)
(* asyncio.Lock and an agent's process (mail, LLM and store calls).  One   *)
(* iteration of process_queue is one action as well: it holds an await,    *)
(* and a drain need not terminate.                                         *)
(***************************************************************************)
EXTENDS Integers, Sequences, FiniteSets, TLC

(***************************************************************************)
(* Bounds of the model.                                                    *)
(***************************************************************************)
\* messages handed to the orchestrator from outside (send_message and
\* send_and_wait calls) in one behaviour
MaxSends == 2
\* values of the wall clock (datetime.utcnow) told apart: 0..MaxClock
MaxClock == 1
\* replies in a chain of replies
MaxChain == 3
\* synthesis cycles in one behaviour
MaxCycles == 2
\* mail records one Gather returns
MaxEmails == 2
\* themes an LLM answer names, and urgent items it lists
MaxThemes == 2
MaxUrgent == 2

(***************************************************************************)
(* Names.                                                                  *)
(***************************************************************************)
SYNTH == "ProactiveSynthesisAgent"
EMAIL == "EmailAgent"
GOAL == "GoalAgent"
ORCH == "orchestrator"
SCHEDULER == "SchedulerService"
\* a recipient name nobody registers
STRANGER == "UnknownAgent"

\* Python's None, for a name and for a message id
None == "None"
NoId == 0

\* MessageType
COMMAND == "command"
QUERY == "query"
RESPONSE == "response"
EVENT == "event"
ERROR == "error"
STATUS == "status"
MessageType == {COMMAND, QUERY, RESPONSE, EVENT, ERROR, STATUS}

\* MessagePriority
LOW == "low"
NORMAL == "normal"
HIGH == "high"
CRITICAL == "critical"
MessagePriority == {LOW, NORMAL, HIGH, CRITICAL}

\* AgentStatus
IDLE == "idle"
PROCESSING == "processing"
AGENT_ERROR == "error"
STOPPED == "stopped"

(***************************************************************************)
(* Message.  payload and metadata are opaque bags; the model keeps what    *)
(* the code looks at.  metadata is "ok" or "bad": a bad bag holds a        *)
(* user_id or session_id that AgentContext refuses (pydantic validation    *)
(* raises).  payload is a triple of strings: <<"request", "", "">> for a   *)
(* message from outside, <<"result", success, "">> for a reply wrapping an *)
(* AgentResult and <<"error", text, name>> for an error reply.             *)
(***************************************************************************)
Message(id, type, sender, recipient, payload, priority, timestamp, correlation_id, reply_to, metadata) ==
    [id |-> id, type |-> type, sender |-> sender, recipient |-> recipient,
     payload |-> payload, priority |-> priority, timestamp |-> timestamp,
     correlation_id |-> correlation_id, reply_to |-> reply_to,
     metadata |-> metadata]

\* no message: Python's None where a Message is expected
NoMsg == Message(NoId, STATUS, None, None, <<"none", "", "">>, NORMAL, 0, NoId, NoId, "ok")

\* Python truth of an optional id: None and the empty string are false.
\* The empty string is modelled by EmptyId.
EmptyId == -1
Truthy(x) == x > 0

\* Python truth of an optional name
TruthyName(n) == n # None /\ n # ""

\* a faulty create_reply: every reply starts a correlation of its own
create_reply_mutC10(m, id, now, sender, payload, type) ==
    Message(id, IF type = None THEN RESPONSE ELSE type, sender, m.sender,
            payload, m.priority, now, m.id, m.id, "ok")

\* Message.create_reply(sender, payload, type=None), built at time now
\* under the fresh id
create_reply(m, id, now, sender, payload, type) ==
    Message(id, IF type = None THEN RESPONSE ELSE type, sender, m.sender,
            payload, m.priority, now,
            IF Truthy(m.correlation_id) THEN m.correlation_id ELSE m.id,
            m.id, "ok")

\* a faulty create_error_reply: the priority of the message answered
create_error_reply_mutC11(m, id, now, sender, error) ==
    Message(id, ERROR, sender, m.sender, error, m.priority, now,
            IF Truthy(m.correlation_id) THEN m.correlation_id ELSE m.id,
            m.id, "ok")

\* a faulty create_error_reply: addressed to the recipient, not the sender
create_error_reply_mutC7(m, id, now, sender, error) ==
    Message(id, ERROR, sender, m.recipient, error, HIGH, now,
            IF Truthy(m.correlation_id) THEN m.correlation_id ELSE m.id,
            m.id, "ok")

\* Message.create_error_reply(sender, error); error is the payload
\* {"error": text}
create_error_reply(m, id, now, sender, error) ==
    Message(id, ERROR, sender, m.sender, error, HIGH, now,
            IF Truthy(m.correlation_id) THEN m.correlation_id ELSE m.id,
            m.id, "ok")

is_broadcast(m) == m.recipient = None
is_error(m) == m.type = ERROR
is_response_to(m, message_id) == m.reply_to = message_id

Last(s) == s[Len(s)]
Front(s) == SubSeq(s, 1, Len(s) - 1)

(***************************************************************************)
(* SimpleOrchestrator._priority_value and the sort of send_message.        *)
(***************************************************************************)
_priority_value(p) ==
    CASE p = LOW -> 0
      [] p = NORMAL -> 1
      [] p = HIGH -> 2
      [] p = CRITICAL -> 3
      [] OTHER -> 1

\* the sort key of send_message: (-priority value, timestamp), compared as
\* Python compares tuples
KeyLess(a, b) ==
    \/ -_priority_value(a.priority) < -_priority_value(b.priority)
    \/ /\ _priority_value(a.priority) = _priority_value(b.priority)
       /\ a.timestamp < b.timestamp

\* list.sort is stable: an element goes behind every element whose key is
\* not greater than its own
RECURSIVE InsertSorted(_, _)
InsertSorted(s, m) ==
    IF s = <<>> THEN <<m>>
    ELSE IF KeyLess(m, Last(s)) THEN Append(InsertSorted(Front(s), m), Last(s))
    ELSE Append(s, m)

RECURSIVE SortQueue(_)
SortQueue(q) ==
    IF q = <<>> THEN <<>>
    ELSE InsertSorted(SortQueue(Front(q)), Last(q))

\* a faulty send_message: append only, the sort left out
Enqueue_mutC1(q, m) == Append(q, m)

\* the queue after send_message(m): append, then sort the whole list
Enqueue(q, m) == SortQueue(Append(q, m))

(***************************************************************************)
(* The state.                                                              *)
(***************************************************************************)
\* the tasks of the event loop: the one running SimpleOrchestrator.run and
\* a caller of send_and_wait (trigger_synthesis.py)
LOOP == "loop"
Callers == {"c1"}
Tasks == {LOOP} \cup Callers

\* the agent instances of the process (app/main.py)
AgentNames == {SYNTH, EMAIL, GOAL}

\* EmailAgent overrides handle_message; the others use BaseAgent's
Kind(a) == IF a = EMAIL THEN "email" ELSE "base"

FREE == "free"

VARIABLES
    \* SimpleOrchestrator
    agents,             \* the registry: the registered names, in dict order
    message_queue,      \* list of Message
    running,
    processed_count,
    error_count,
    pending_responses,  \* the keys of _pending_responses (no code resolves
                        \* the futures, so their state is always pending)
    \* BaseAgent, per instance
    status,
    run_count,
    agent_error_count,
    lock,               \* _lock: FREE or the task that holds it
    \* the tasks
    pc,                 \* where each task is suspended
    cur,                \* the message the task's process_message handles
    tgt,                \* the agent whose handle_message the task is in
    bpos,               \* broadcast: position in agents.items(); 0: addressed
    bsize,              \* broadcast: size of the dict when iteration began
    ret,                \* what the caller's last send_and_wait returned
    \* environment
    clock,              \* datetime.utcnow()
    sent,               \* messages handed in from outside so far
    \* history
    arrival,            \* ids of the queued messages in enqueue order
    faults,             \* faults that reached process_message's handler
    loop_faulted,       \* one of them in the dispatch loop's task
    stop_called,        \* stop() was called since run began
    cancelled,          \* the run task was cancelled from outside
    bcast,              \* the task's last broadcast: the handle_message
                        \* calls it made, and how process_message ended
    \* a chain of replies (message.py)
    chain,
    \* ProactiveSynthesisAgent, one synthesis cycle at a time
    stage,              \* where _run_synthesis_cycle is
    user_id,            \* the user of the cycle
    working_memory,     \* Gather's result
    themes,             \* ThemeCluster's result
    analysis,           \* PriorityExtract's result
    insights,           \* InsightGenerate's result
    stored_insights,    \* Persist's result
    last_sync_times,    \* the watermark of each user
    store,              \* the collection synthesis_insights
    cycle_result,       \* the AgentResult of the last cycle
    cycles,             \* cycles started so far
    llm_calls,          \* history: the LLM calls of the cycle, by stage
    cycle_of,           \* history: the id of the command whose process call
                        \* runs the cycle; NoId for a call by no message
    io_calls,           \* history: the cycle's calls of the mail agent and
                        \* of the document store
    \* the collections and collaborators that stand alone
    contacts,           \* users/{user}/contacts of one user, by document key
    user_goals,         \* the collection user_goals, by document id
    goal_result,        \* the AgentResult of the last GoalAgent action
    mail,               \* EmailAgent.process_new_emails: the records
                        \* fetched, the batch reached, the records returned
    themes_summary      \* PriorityExtract: the themes handed to it and the
                        \* sample of each that goes into the prompt

orchVars == <<agents, message_queue, running, processed_count, error_count,
              pending_responses>>
agentVars == <<status, run_count, agent_error_count, lock>>
taskVars == <<pc, cur, tgt, bpos, bsize, ret>>
envVars == <<clock, sent>>
histVars == <<arrival, faults, loop_faulted, stop_called, cancelled, bcast>>
sideVars == <<contacts, user_goals, goal_result, mail, themes_summary>>
\* what no step of the orchestrator or of a synthesis cycle touches
msgVars == <<chain, sideVars>>
synthVars == <<stage, user_id, working_memory, themes, analysis, insights,
               stored_insights, last_sync_times, store, cycle_result, cycles,
               llm_calls, cycle_of, io_calls>>

(***************************************************************************)
(* Message ids are uuid4 values: an id is new when no message, field or    *)
(* map of the current state holds it.                                      *)
(***************************************************************************)
MsgIds(m) == {m.id, m.correlation_id, m.reply_to} \ {NoId, EmptyId}

LiveIds ==
    UNION ({MsgIds(message_queue[i]) : i \in 1..Len(message_queue)}
           \cup {MsgIds(cur[t]) : t \in Tasks}
           \cup {MsgIds(ret[c].value) \cup MsgIds(ret[c].req) : c \in Callers}
           \cup {pending_responses, {cycle_of} \ {NoId}})

FreshId(avoid) ==
    CHOOSE i \in 1..(Cardinality(LiveIds \cup avoid) + 1) : i \notin LiveIds \cup avoid

(***************************************************************************)
(* Agents.                                                                 *)
(***************************************************************************)
Registered(a) == \E i \in 1..Len(agents) : agents[i] = a

\* the agent state as one value, to thread it through the steps of an action
AgState ==
    [status |-> status, run_count |-> run_count,
     error_count |-> agent_error_count, lock |-> lock]

SetAgents(ag) ==
    /\ status' = ag.status
    /\ run_count' = ag.run_count
    /\ agent_error_count' = ag.error_count
    /\ lock' = ag.lock

\* the tasks suspended on the agent's asyncio.Lock
Waiters(a) == {u \in Tasks : pc[u] = "lock" /\ tgt[u] = a}

\* a faulty adapter: events go through _handle_command like commands
handle_message_mutC34(a, m) ==
    IF Kind(a) = "base"
      THEN IF m.metadata = "bad" THEN "error_reply"
           ELSE IF m.type \in {COMMAND, QUERY, EVENT} THEN "lock"
           ELSE "none"
      ELSE IF m.metadata = "bad" THEN "raise"
           ELSE IF m.type = COMMAND THEN "proc"
           ELSE "none"

\* handle_message(m) of agent a up to its first await that suspends:
\*   "raise"        an exception leaves handle_message
\*   "error_reply"  handle_message caught it and returns an error reply
\*   "none"         it returns None
\*   "lock"         it goes on to _handle_command (lock, then process)
\*   "proc"         it goes on to process, taking no lock
handle_message(a, m) ==
    IF Kind(a) = "base"
      THEN IF m.metadata = "bad" THEN "error_reply"
           ELSE IF m.type \in {COMMAND, QUERY} THEN "lock"
           ELSE "none"
      ELSE IF m.metadata = "bad" THEN "raise"
           ELSE IF m.type = COMMAND THEN "proc"
           ELSE "none"

\* what process of the agent may do: return a result with success, one
\* without, or raise.  EmailAgent.process catches every Exception.
Outcomes(a) == IF Kind(a) = "email" THEN {"ok", "fail"} ELSE {"ok", "fail", "raise"}

\* a faulty process_message: no except clause
CaughtByProcessMessage_mutC8(exc) == FALSE

\* the clause "except Exception" of process_message: CancelledError is no
\* Exception
CaughtByProcessMessage(exc) == exc = "Exception"

(***************************************************************************)
(* The steps of process_message and of its callers.  x is the state the    *)
(* step works on: the queue q, the enqueue history arr, the agents ag,     *)
(* the pending map pend and the callers' results rt.                       *)
(***************************************************************************)
\* a caller's view of its last send_and_wait: the message it sent (req),
\* whether the call found the loop running ("waited") or not ("direct"),
\* how the call ended (state) and with what (value); replied names the
\* author of a reply to req that the loop produced while the caller waited
NoRet == [state |-> "none", value |-> NoMsg, mode |-> "none", req |-> NoMsg,
          replied |-> None]

\* a faulty send_and_wait: no finally clause
Finally_mutC5(pend, request_id) == pend

\* the finally clause of send_and_wait: the entry of request_id is deleted
Finally(pend, request_id) == pend \ {request_id}

\* a faulty process_message: None for an unknown recipient
unknown_recipient_reply_mutC6(m, id, now) == NoMsg

\* process_message's answer to an unknown recipient
unknown_recipient_reply(m, id, now) ==
    create_error_reply(m, id, now, ORCH, <<"error", "Unknown agent", m.recipient>>)

\* no broadcast handled yet.  Of a broadcast the record keeps the sender,
\* the metadata, the agents whose handle_message was called, in the order of the calls,
\* and how far process_message is: "running", "returned" (None) or
\* "raised" (its outer handler returned an error reply)
NoBroadcast == [state |-> "none", sender |-> None, metadata |-> "ok", to |-> <<>>]

\* a faulty adapter: a fault of process is reported as a result without
\* success, in an ordinary reply
_handle_command_reply_mutC13(a, m, o, id, now) ==
    create_reply(m, id, now, a, <<"result", IF o = "ok" THEN "true" ELSE "false", "">>, None)

\* what handle_message of agent a returns for m when process ended with
\* outcome o: a reply wrapping the result, or an error reply with the
\* fault's text.  (EmailAgent's process never raises.)
_handle_command_reply(a, m, o, id, now) ==
    IF o = "raise"
      THEN create_error_reply(m, id, now, a, <<"error", "fault", "">>)
      ELSE create_reply(m, id, now, a, <<"result", IF o = "ok" THEN "true" ELSE "false", "">>,
                        None)

Here == [q |-> message_queue, arr |-> arrival, ag |-> AgState,
         pend |-> pending_responses, rt |-> ret, bc |-> bcast]

ClearTask(t) ==
    /\ cur' = [cur EXCEPT ![t] = NoMsg]
    /\ tgt' = [tgt EXCEPT ![t] = None]
    /\ bpos' = [bpos EXCEPT ![t] = 0]
    /\ bsize' = [bsize EXCEPT ![t] = 0]

\* process_message(m) returns resp to task t: process_queue re-enqueues a
\* reply and goes on; send_and_wait returns it through its finally clause
Complete(t, m, x, resp, dp, de, df) ==
    /\ SetAgents(x.ag)
    /\ processed_count' = processed_count + dp
    /\ error_count' = error_count + de
    /\ faults' = faults + df
    /\ loop_faulted' = (loop_faulted \/ (t = LOOP /\ df > 0))
    /\ ClearTask(t)
    /\ bcast' = x.bc
    /\ UNCHANGED <<agents, running, stop_called, cancelled>>
    /\ IF t = LOOP
         THEN /\ message_queue' = IF resp.id # NoId THEN Enqueue(x.q, resp) ELSE x.q
              /\ arrival' = IF resp.id # NoId THEN Append(x.arr, resp.id) ELSE x.arr
              /\ pc' = [pc EXCEPT ![t] = "drain"]
              /\ pending_responses' = x.pend
              /\ ret' = [c \in Callers |->
                           IF pc[c] = "wait" /\ resp.id # NoId /\ resp.reply_to = cur[c].id
                             THEN [x.rt[c] EXCEPT !.replied = resp.sender]
                             ELSE x.rt[c]]
         ELSE /\ message_queue' = x.q
              /\ arrival' = x.arr
              /\ pc' = [pc EXCEPT ![t] = "idle"]
              /\ pending_responses' = Finally(x.pend, m.id)
              /\ ret' = [x.rt EXCEPT ![t].state = "returned", ![t].value = resp]

\* an exception leaves process_message in task t: run catches it and ends
\* (finally: running = False); send_and_wait lets it pass after its finally
Escape(t, m, x, exc, df) ==
    /\ SetAgents(x.ag)
    /\ faults' = faults + df
    /\ loop_faulted' = (loop_faulted \/ (t = LOOP /\ df > 0))
    /\ ClearTask(t)
    /\ message_queue' = x.q
    /\ arrival' = x.arr
    /\ bcast' = x.bc
    /\ UNCHANGED <<agents, processed_count, error_count, stop_called>>
    /\ IF t = LOOP
         THEN /\ running' = FALSE
              /\ pc' = [pc EXCEPT ![t] = "done"]
              /\ cancelled' = (cancelled \/ exc = "CancelledError")
              /\ pending_responses' = x.pend
              /\ ret' = x.rt
         ELSE /\ pc' = [pc EXCEPT ![t] = "idle"]
              /\ pending_responses' = Finally(x.pend, m.id)
              /\ ret' = [x.rt EXCEPT ![t].state = IF exc = "CancelledError"
                                                    THEN "cancelled" ELSE "raised"]
              /\ UNCHANGED <<running, cancelled>>

\* exception exc reaches the outer try of process_message
Raise(t, m, x, exc, error) ==
    IF CaughtByProcessMessage(exc)
      THEN Complete(t, m, x, create_error_reply(m, FreshId(MsgIds(m)), clock, ORCH, error), 0, 1, 1)
      ELSE Escape(t, m, x, exc, IF exc = "Exception" THEN 1 ELSE 0)

\* task t enters _handle_command (base adapter) or process (EmailAgent) of
\* agent a; j and size place it in a broadcast (0: an addressed message)
Enter(t, m, x, a, j, size) ==
    /\ message_queue' = x.q
    /\ arrival' = x.arr
    /\ pending_responses' = x.pend
    /\ ret' = x.rt
    /\ bcast' = x.bc
    /\ cur' = [cur EXCEPT ![t] = m]
    /\ tgt' = [tgt EXCEPT ![t] = a]
    /\ bpos' = [bpos EXCEPT ![t] = j]
    /\ bsize' = [bsize EXCEPT ![t] = size]
    /\ UNCHANGED <<agents, running, processed_count, error_count, faults,
                   loop_faulted, stop_called, cancelled>>
    /\ IF Kind(a) = "base" /\ (x.ag.lock[a] # FREE \/ Waiters(a) # {})
         THEN /\ pc' = [pc EXCEPT ![t] = "lock"]
              /\ SetAgents(x.ag)
         ELSE /\ pc' = [pc EXCEPT ![t] = "proc"]
              /\ SetAgents(IF Kind(a) = "base"
                             THEN [x.ag EXCEPT !.lock[a] = t, !.status[a] = PROCESSING]
                             ELSE x.ag)

\* the loop over self.agents.items() of a broadcast, from position k on:
\* agents that answer without suspending leave no trace (their replies and
\* exceptions are dropped); the loop stops at the first one that suspends
NextSuspending(m, k) ==
    LET S == {j \in k..Len(agents) :
                /\ agents[j] # m.sender
                /\ handle_message(agents[j], m) \in {"lock", "proc"}}
    IN  IF S = {} THEN 0 ELSE CHOOSE j \in S : \A i \in S : j <= i

\* a faulty broadcast: no try around the call of handle_message, so the
\* first agent that raises ends the loop in process_message's handler
Broadcast_mutC12(t, m, x, k, size) ==
    LET S == {j \in k..Len(agents) :
                /\ agents[j] # m.sender
                /\ handle_message(agents[j], m) \in {"lock", "proc", "raise"}}
        j == IF S = {} THEN 0 ELSE CHOOSE i \in S : \A h \in S : i <= h
        called == SelectSeq(SubSeq(agents, k, IF j = 0 THEN Len(agents) ELSE j),
                            LAMBDA a : a # m.sender)
        raises == j # 0 /\ handle_message(agents[IF j = 0 THEN 1 ELSE j], m) = "raise"
        x1 == [x EXCEPT !.bc[t] = [state |-> IF j = 0 THEN "returned"
                                             ELSE IF raises THEN "raised" ELSE "running",
                                   sender |-> m.sender,
                                   metadata |-> m.metadata,
                                   to |-> (IF k = 1 THEN <<>> ELSE x.bc[t].to) \o called]]
    IN  IF j = 0 THEN Complete(t, m, x1, NoMsg, 0, 0, 0)
        ELSE IF raises THEN Raise(t, m, x1, "Exception", <<"error", "validation", "">>)
        ELSE Enter(t, m, x1, agents[j], j, size)

Broadcast(t, m, x, k, size) ==
    LET j == NextSuspending(m, k)
        called == SelectSeq(SubSeq(agents, k, IF j = 0 THEN Len(agents) ELSE j),
                            LAMBDA a : a # m.sender)
        x1 == [x EXCEPT !.bc[t] = [state |-> IF j = 0 THEN "returned" ELSE "running",
                                   sender |-> m.sender,
                                   metadata |-> m.metadata,
                                   to |-> (IF k = 1 THEN <<>> ELSE x.bc[t].to) \o called]]
    IN  IF j = 0 THEN Complete(t, m, x1, NoMsg, 0, 0, 0)
        ELSE Enter(t, m, x1, agents[j], j, size)

\* process_message(m) from its first line
Dispatch(t, m, x) ==
    IF is_broadcast(m) THEN Broadcast(t, m, x, 1, Len(agents))
    ELSE IF ~TruthyName(m.recipient) THEN Complete(t, m, x, NoMsg, 0, 0, 0)
    ELSE IF ~Registered(m.recipient)
      THEN Complete(t, m, x, unknown_recipient_reply(m, FreshId(MsgIds(m)), clock), 0, 0, 0)
    ELSE LET r == handle_message(m.recipient, m)
         IN  CASE r = "raise" -> Raise(t, m, x, "Exception", <<"error", "validation", "">>)
               [] r = "error_reply" ->
                    Complete(t, m, x,
                             create_error_reply(m, FreshId(MsgIds(m)), clock, m.recipient,
                                                <<"error", "validation", "">>),
                             1, 0, 0)
               [] r = "none" -> Complete(t, m, x, NoMsg, 1, 0, 0)
               [] OTHER -> Enter(t, m, x, m.recipient, 0, 0)

(***************************************************************************)
(* The operations of SimpleOrchestrator.                                   *)
(***************************************************************************)
\* asyncio runs one task at a time and switches at an await that suspends:
\* process_queue suspends nowhere but inside an agent, so while the loop
\* drains the queue no other task takes a step
LoopYields == pc[LOOP] # "drain"

\* a Message built by a caller: a new id, no correlation id, no reply_to
NewMessage(type, sender, recipient, priority, timestamp, metadata) ==
    Message(FreshId({}), type, sender, recipient, <<"request", "", "">>,
            priority, timestamp, NoId, NoId, metadata)

register_agent(a) ==
    /\ UNCHANGED <<msgVars, synthVars>>
    /\ ~Registered(a)
    /\ agents' = Append(agents, a)
    /\ UNCHANGED <<message_queue, running, processed_count, error_count,
                   pending_responses, agentVars, taskVars, envVars, histVars>>

unregister_agent(a) ==
    /\ UNCHANGED <<msgVars, synthVars>>
    /\ Registered(a)
    /\ agents' = SelectSeq(agents, LAMBDA n : n # a)
    /\ UNCHANGED <<message_queue, running, processed_count, error_count,
                   pending_responses, agentVars, taskVars, envVars, histVars>>

send_message(m) ==
    /\ UNCHANGED <<msgVars, synthVars>>
    /\ LoopYields
    /\ sent < MaxSends
    /\ sent' = sent + 1
    /\ message_queue' = Enqueue(message_queue, m)
    /\ arrival' = Append(arrival, m.id)
    /\ UNCHANGED <<agents, running, processed_count, error_count,
                   pending_responses, agentVars, taskVars, clock, faults,
                   loop_faulted, stop_called, cancelled, bcast>>

broadcast_message(m) == send_message([m EXCEPT !.recipient = None])

\* send_and_wait(m, timeout) up to its first suspension
send_and_wait(c, m) ==
    /\ UNCHANGED <<msgVars, synthVars>>
    /\ LoopYields
    /\ pc[c] = "idle"
    /\ sent < MaxSends
    /\ sent' = sent + 1
    /\ UNCHANGED clock
    /\ LET x == [Here EXCEPT !.q = Enqueue(message_queue, m),
                             !.arr = Append(arrival, m.id),
                             !.pend = pending_responses \cup {m.id},
                             !.rt = [ret EXCEPT ![c] = [NoRet EXCEPT
                                        !.req = m,
                                        !.mode = IF running THEN "waited" ELSE "direct"]]]
       IN  IF ~running
             THEN Dispatch(c, m, x)
             ELSE /\ message_queue' = x.q
                  /\ arrival' = x.arr
                  /\ pending_responses' = x.pend
                  /\ ret' = x.rt
                  /\ pc' = [pc EXCEPT ![c] = "wait"]
                  /\ cur' = [cur EXCEPT ![c] = m]
                  /\ UNCHANGED <<agents, running, processed_count, error_count,
                                 agentVars, tgt, bpos, bsize, faults,
                                 loop_faulted, stop_called, cancelled, bcast>>

\* asyncio.wait_for gives up: send_and_wait returns None
wait_timeout(c) ==
    /\ UNCHANGED <<msgVars, synthVars>>
    /\ LoopYields
    /\ pc[c] = "wait"
    /\ pc' = [pc EXCEPT ![c] = "idle"]
    /\ ret' = [ret EXCEPT ![c].state = "returned", ![c].value = NoMsg]
    /\ pending_responses' = Finally(pending_responses, cur[c].id)
    /\ ClearTask(c)
    /\ UNCHANGED <<agents, message_queue, running, processed_count,
                   error_count, agentVars, envVars, histVars>>

\* the task waiting for an agent's lock gets it
acquire_lock(t) ==
    /\ UNCHANGED <<msgVars, synthVars>>
    /\ LoopYields
    /\ pc[t] = "lock"
    /\ lock[tgt[t]] = FREE
    /\ pc' = [pc EXCEPT ![t] = "proc"]
    /\ lock' = [lock EXCEPT ![tgt[t]] = t]
    /\ status' = [status EXCEPT ![tgt[t]] = PROCESSING]
    /\ UNCHANGED <<orchVars, run_count, agent_error_count, cur, tgt, bpos,
                   bsize, ret, envVars, histVars>>

\* process of the agent ends with outcome o; handle_message returns and
\* process_message goes on
process_done(t, o) ==
    /\ UNCHANGED <<msgVars, synthVars>>
    /\ LoopYields
    /\ pc[t] = "proc"
    /\ o \in Outcomes(tgt[t])
    /\ UNCHANGED envVars
    /\ LET a == tgt[t]
           m == cur[t]
           ag0 == AgState
           ag1 == IF Kind(a) = "email" THEN ag0
                  ELSE IF o = "raise"
                    THEN [ag0 EXCEPT !.lock[a] = FREE, !.status[a] = AGENT_ERROR,
                                     !.error_count[a] = @ + 1]
                    ELSE [ag0 EXCEPT !.lock[a] = FREE, !.status[a] = IDLE,
                                     !.run_count[a] = @ + 1]
           reply == _handle_command_reply(a, m, o, FreshId({}), clock)
           x == [Here EXCEPT !.ag = ag1]
       IN  IF bpos[t] = 0 THEN Complete(t, m, x, reply, 1, 0, 0)
           ELSE IF Len(agents) # bsize[t]
             THEN Raise(t, m, [x EXCEPT !.bc[t].state = "raised"], "Exception",
                        <<"error", "dictionary changed size", "">>)
           ELSE Broadcast(t, m, x, bpos[t] + 1, bsize[t])

\* the task is cancelled from outside while suspended: CancelledError is
\* raised at its await.  "async with" gives the lock back; no handler of
\* the agent sees a CancelledError, so its status stays as it is.
cancel_task(t) ==
    /\ UNCHANGED <<msgVars, synthVars>>
    /\ LoopYields
    /\ pc[t] \in {"sleep", "wait", "lock", "proc"}
    /\ UNCHANGED envVars
    /\ LET a == tgt[t]
           ag1 == IF pc[t] = "proc" /\ Kind(a) = "base"
                    THEN [AgState EXCEPT !.lock[a] = FREE]
                    ELSE AgState
           x == [Here EXCEPT !.ag = ag1]
       IN  IF pc[t] \in {"lock", "proc"}
             THEN Raise(t, cur[t], x, "CancelledError", <<"error", "cancelled", "">>)
             ELSE Escape(t, cur[t], x, "CancelledError", 0)

\* run(process_interval) from its first line to its first suspension
run ==
    /\ UNCHANGED <<msgVars, synthVars>>
    /\ pc[LOOP] = "init"
    /\ running' = TRUE
    /\ stop_called' = FALSE
    /\ pc' = [pc EXCEPT ![LOOP] = IF message_queue # <<>> THEN "drain" ELSE "sleep"]
    /\ UNCHANGED <<agents, message_queue, processed_count, error_count,
                   pending_responses, agentVars, cur, tgt, bpos, bsize, ret,
                   envVars, arrival, faults, loop_faulted, cancelled, bcast>>

\* asyncio.sleep is over: "while self.running", "if self.message_queue"
run_wake ==
    /\ UNCHANGED <<msgVars, synthVars>>
    /\ pc[LOOP] = "sleep"
    /\ ~running \/ message_queue # <<>>
    /\ pc' = [pc EXCEPT ![LOOP] = IF running THEN "drain" ELSE "done"]
    /\ running' = running
    /\ UNCHANGED <<agents, message_queue, processed_count, error_count,
                   pending_responses, agentVars, cur, tgt, bpos, bsize, ret,
                   envVars, histVars>>

\* a faulty process_queue: pop() takes the message at the end of the list
process_queue_mutC33 ==
    /\ UNCHANGED <<msgVars, synthVars>>
    /\ pc[LOOP] = "drain"
    /\ message_queue # <<>>
    /\ UNCHANGED envVars
    /\ LET m == Last(message_queue)
           x == [Here EXCEPT !.q = Front(message_queue),
                             !.arr = SelectSeq(arrival, LAMBDA i : i # m.id)]
       IN  Dispatch(LOOP, m, x)

\* one iteration of process_queue: pop(0), process_message
process_queue ==
    /\ UNCHANGED <<msgVars, synthVars>>
    /\ pc[LOOP] = "drain"
    /\ message_queue # <<>>
    /\ UNCHANGED envVars
    /\ LET m == Head(message_queue)
           x == [Here EXCEPT !.q = Tail(message_queue),
                             !.arr = SelectSeq(arrival, LAMBDA i : i # m.id)]
       IN  Dispatch(LOOP, m, x)

\* "while self.message_queue" finds the queue empty: back to run's sleep
process_queue_end ==
    /\ UNCHANGED <<msgVars, synthVars>>
    /\ pc[LOOP] = "drain"
    /\ message_queue = <<>>
    /\ pc' = [pc EXCEPT ![LOOP] = "sleep"]
    /\ UNCHANGED <<orchVars, agentVars, cur, tgt, bpos, bsize, ret, envVars,
                   histVars>>

stop ==
    /\ UNCHANGED <<msgVars, synthVars>>
    /\ LoopYields
    /\ running \/ (pc[LOOP] # "init" /\ ~stop_called)
    /\ running' = FALSE
    /\ stop_called' = (stop_called \/ pc[LOOP] # "init")
    /\ UNCHANGED <<agents, message_queue, processed_count, error_count,
                   pending_responses, agentVars, taskVars, envVars, arrival,
                   faults, loop_faulted, cancelled, bcast>>

\* send_message by a producer while the dispatch loop is suspended inside
\* an agent, after the messages counted by MaxSends
send_message_in_drain(m) ==
    /\ UNCHANGED <<msgVars, synthVars>>
    /\ pc[LOOP] \in {"lock", "proc"}
    /\ sent = MaxSends
    /\ sent' = sent + 1
    /\ message_queue' = Enqueue(message_queue, m)
    /\ arrival' = Append(arrival, m.id)
    /\ UNCHANGED <<agents, running, processed_count, error_count,
                   pending_responses, agentVars, taskVars, clock, faults,
                   loop_faulted, stop_called, cancelled, bcast>>

\* time passes
Tick ==
    /\ UNCHANGED <<msgVars, synthVars>>
    /\ clock < MaxClock
    /\ clock' = clock + 1
    /\ UNCHANGED <<orchVars, agentVars, taskVars, sent, histVars>>

(***************************************************************************)
(* The orchestrator with its agents, its callers and its dispatch loop.    *)
(***************************************************************************)
\* the process after app/main.py has built the orchestrator and registered
\* the agents, before run takes its first step
InitOrch ==
    /\ agents = <<EMAIL, SYNTH>>
    /\ message_queue = <<>>
    /\ running = FALSE
    /\ processed_count = 0
    /\ error_count = 0
    /\ pending_responses = {}
    /\ status = [a \in AgentNames |-> IDLE]
    /\ run_count = [a \in AgentNames |-> 0]
    /\ agent_error_count = [a \in AgentNames |-> 0]
    /\ lock = [a \in AgentNames |-> FREE]
    /\ pc = [t \in Tasks |-> IF t = LOOP THEN "init" ELSE "idle"]
    /\ cur = [t \in Tasks |-> NoMsg]
    /\ tgt = [t \in Tasks |-> None]
    /\ bpos = [t \in Tasks |-> 0]
    /\ bsize = [t \in Tasks |-> 0]
    /\ ret = [c \in Callers |-> NoRet]
    /\ clock = 0
    /\ sent = 0
    /\ arrival = <<>>
    /\ faults = 0
    /\ loop_faulted = FALSE
    /\ stop_called = FALSE
    /\ cancelled = FALSE
    /\ bcast = [t \in Tasks |-> NoBroadcast]

vars == <<agents, message_queue, running, processed_count, error_count,
          pending_responses, status, run_count, agent_error_count, lock,
          pc, cur, tgt, bpos, bsize, ret, clock, sent, arrival, faults,
          loop_faulted, stop_called, cancelled, bcast, chain, stage, user_id,
          working_memory, themes, analysis, insights, stored_insights,
          last_sync_times, store, cycle_result, cycles, llm_calls,
          cycle_of, io_calls, contacts, user_goals, goal_result, mail,
          themes_summary>>

(***************************************************************************)
(* The synthesis cycle of ProactiveSynthesisAgent.  The mail collaborator, *)
(* the LLM and the document store answer as they please; the model keeps   *)
(* the shape of each answer, which is all the code branches on.  A cycle   *)
(* runs under the agent's lock, so there is one at a time; each stage ends *)
(* at an await and is one action.                                          *)
(***************************************************************************)
Users == {"u1", "u2"}

NoResult == [success |-> FALSE, insights |-> <<>>, error |-> "none"]

\* no stage of the cycle has called the LLM yet
NoCalls == [themes |-> "none", priority |-> "none", insight |-> "none"]

\* no call of the mail agent and none of the store yet
NoIO == [mail |-> [called |-> FALSE, since |-> 0, failed |-> FALSE], add |-> <<>>]

\* the user has no entry in last_sync_times
NoSync == -1

InitSynth ==
    /\ stage = "idle"
    /\ user_id = None
    /\ working_memory = [emails |-> 0]
    /\ themes = [count |-> 0, from |-> "none"]
    /\ analysis = [priorities |-> "none", urgent |-> 0, from |-> "none"]
    /\ insights = <<>>
    /\ stored_insights = <<>>
    /\ last_sync_times = [u \in Users |-> NoSync]
    /\ store = <<>>
    /\ cycle_result = NoResult
    /\ cycles = 0
    /\ llm_calls = NoCalls
    /\ cycle_of = NoId
    /\ io_calls = NoIO

\* the cycle ends: _run_synthesis_cycle returns result
EndCycle(result) ==
    /\ stage' = "done"
    /\ cycle_result' = result

\* process with action START_SYNTHESIS_CYCLE: _run_synthesis_cycle up to
\* the call of _gather_information.  u is the user_id of the command, None
\* when it carries none.
StartCycle(u, id) ==
    /\ stage \in {"idle", "done"}
    /\ cycles < MaxCycles
    /\ cycles' = cycles + 1
    /\ llm_calls' = NoCalls
    /\ cycle_of' = id
    /\ io_calls' = NoIO
    /\ user_id' = u
    /\ working_memory' = [emails |-> 0]
    /\ themes' = [count |-> 0, from |-> "none"]
    /\ analysis' = [priorities |-> "none", urgent |-> 0, from |-> "none"]
    /\ insights' = <<>>
    /\ stored_insights' = <<>>
    /\ IF u = None
         THEN EndCycle([success |-> FALSE, insights |-> <<>>, error |-> "No user_id provided"])
         ELSE /\ stage' = "gather"
              /\ cycle_result' = NoResult
    /\ UNCHANGED <<last_sync_times, store>>

\* a cycle of its own, started by no message
_run_synthesis_cycle(u) ==
    /\ StartCycle(u, NoId)
    /\ UNCHANGED <<orchVars, agentVars, taskVars, envVars, histVars, msgVars>>

\* a day, in the unit of the clock
DAY == 24

\* a faulty window start: the default whatever the watermark
last_sync_mutC22(lst, u, now) == now - DAY

\* self.last_sync_times.get(user_id, datetime.utcnow() - timedelta(hours=24))
last_sync(lst, u, now) == IF lst[u] = NoSync THEN now - DAY ELSE lst[u]

\* _gather_information: the mail agent returns n records, or raises
\* (n = 0, failed) and the working memory keeps an empty list
_gather_information(n, failed) ==
    /\ stage = "gather"
    /\ working_memory' = [emails |-> IF failed THEN 0 ELSE n]
    /\ io_calls' = [io_calls EXCEPT !.mail =
                      [called |-> TRUE, since |-> last_sync(last_sync_times, user_id, clock),
                       failed |-> failed]]
    /\ stage' = "graph"
    /\ UNCHANGED <<user_id, themes, analysis, insights, stored_insights,
                   last_sync_times, store, cycle_result, cycles,
                   llm_calls, cycle_of>>
    /\ UNCHANGED <<orchVars, agentVars, taskVars, envVars, histVars, msgVars>>

\* a faulty _update_social_graph: the cycle gathers again after it
_update_social_graph_mutC15 ==
    /\ stage = "graph"
    /\ stage' = "gather"
    /\ UNCHANGED <<user_id, working_memory, themes, analysis, insights,
                   stored_insights, last_sync_times, store, cycle_result, cycles,
                   llm_calls, cycle_of,
                   io_calls>>
    /\ UNCHANGED <<orchVars, agentVars, taskVars, envVars, histVars, msgVars>>

\* _update_social_graph: every fault is caught inside; the cycle goes on.
\* The contact documents it writes have no part in what the cycle does
\* next; they are followed apart, one _update_contact at a time.
_update_social_graph ==
    /\ stage = "graph"
    /\ stage' = "themes"
    /\ UNCHANGED <<user_id, working_memory, themes, analysis, insights,
                   stored_insights, last_sync_times, store, cycle_result, cycles,
                   llm_calls, cycle_of,
                   io_calls>>
    /\ UNCHANGED <<orchVars, agentVars, taskVars, envVars, histVars, msgVars>>

\* the answers of the LLM to the thematic prompt:
\*   "raise"       the call raises
\*   "json"        a JSON object; k of its themes hold a valid index
\*   "not_object"  JSON, but no object: .get raises AttributeError
\*   "text"        no JSON: _parse_themes finds k themes in the lines
ThemeAnswers == {"raise", "json", "not_object", "text"}

\* a faulty _perform_thematic_analysis: no early return on an empty list
_perform_thematic_analysis_mutC17(answer, k) ==
    /\ stage = "themes"
    /\ themes' =
         IF answer \in {"raise", "not_object"} THEN [count |-> 1, from |-> "default"]
         ELSE IF answer = "json" THEN [count |-> k, from |-> "json"]
         ELSE IF k = 0 THEN [count |-> 1, from |-> "default"]
         ELSE [count |-> k, from |-> "text"]
    /\ llm_calls' = [llm_calls EXCEPT !.themes =
                       IF answer = "raise" THEN "raised" ELSE "ok"]
    /\ stage' = "priority"
    /\ UNCHANGED <<user_id, working_memory, analysis, insights,
                   stored_insights, last_sync_times, store, cycle_result, cycles, cycle_of,
                   io_calls>>
    /\ UNCHANGED <<orchVars, agentVars, taskVars, envVars, histVars, msgVars>>

_perform_thematic_analysis(answer, k) ==
    /\ stage = "themes"
    /\ themes' =
         IF working_memory.emails = 0 THEN [count |-> 0, from |-> "empty"]
         ELSE IF answer \in {"raise", "not_object"} THEN [count |-> 1, from |-> "default"]
         ELSE IF answer = "json" THEN [count |-> k, from |-> "json"]
         ELSE IF k = 0 THEN [count |-> 1, from |-> "default"]
         ELSE [count |-> k, from |-> "text"]
    /\ llm_calls' = [llm_calls EXCEPT !.themes =
                       IF working_memory.emails = 0 THEN "none"
                       ELSE IF answer = "raise" THEN "raised" ELSE "ok"]
    /\ stage' = "priority"
    /\ UNCHANGED <<user_id, working_memory, analysis, insights,
                   stored_insights, last_sync_times, store, cycle_result, cycles, cycle_of,
                   io_calls>>
    /\ UNCHANGED <<orchVars, agentVars, taskVars, envVars, histVars, msgVars>>

\* the answers of the LLM to the priority prompt:
\*   "raise"          the call raises
\*   "json"           an object whose priorities hold the three lists of
\*                    strings; n urgent items
\*   "no_priorities"  an object without the key priorities
\*   "incomplete"     an object whose priorities lack a list, or are no
\*                    object, or hold items that are no strings
\*   "null_list"      an object whose priorities hold the keys urgent and
\*                    important, one of them null; n urgent items when it
\*                    is important that is null
\*   "not_object"     JSON, but no object: the item assignment raises
\*   "text"           no JSON: the line parser finds n urgent items
PriorityAnswers == {"raise", "json", "no_priorities", "incomplete", "null_list",
                    "not_object", "text"}

_perform_priority_analysis(answer, n) ==
    /\ stage = "priority"
    /\ analysis' =
         CASE answer = "json" -> [priorities |-> "lists", urgent |-> n, from |-> "json"]
           [] answer = "text" -> [priorities |-> "lists", urgent |-> n, from |-> "text"]
           [] answer = "incomplete" -> [priorities |-> "incomplete", urgent |-> 0, from |-> "json"]
           [] answer = "no_priorities" -> [priorities |-> "lists", urgent |-> 0, from |-> "json"]
           [] answer = "null_list" -> [priorities |-> "null_list", urgent |-> n, from |-> "json"]
           [] OTHER -> [priorities |-> "lists", urgent |-> 0, from |-> "skeleton"]
    /\ llm_calls' = [llm_calls EXCEPT !.priority = IF answer = "raise" THEN "raised" ELSE "ok"]
    /\ stage' = "insight"
    /\ UNCHANGED <<user_id, working_memory, themes, insights,
                   stored_insights, last_sync_times, store, cycle_result, cycles, cycle_of,
                   io_calls>>
    /\ UNCHANGED <<orchVars, agentVars, taskVars, envVars, histVars, msgVars>>

\* a faulty handler of _generate_advisor_insights: it returns no insight
advisor_insights_mutC20(a, ok) ==
    IF ~ok \/ a.priorities = "null_list" THEN <<>>
    ELSE IF a.urgent > 0 THEN <<"daily_briefing", "priority_alert">>
    ELSE <<"daily_briefing">>

\* the try of _generate_advisor_insights: the types of the insights it
\* returns.  ok: the narrative call returned.  The briefing is built after
\* the call and inside the same try: len() of a null list raises there and
\* the handler's single status_update is returned as when the call raises.
advisor_insights(a, ok) ==
    IF ~ok \/ a.priorities = "null_list" THEN <<"status_update">>
    ELSE IF a.urgent > 0 THEN <<"daily_briefing", "priority_alert">>
    ELSE <<"daily_briefing">>

\* _generate_advisor_insights.  The prompt is built before the try: with
\* incomplete priorities analysis['priorities']['urgent'] raises, the
\* exception leaves _synthesize_information and _run_synthesis_cycle
\* catches it.  Inside the try the LLM answers (ok) or raises.
_generate_advisor_insights(ok) ==
    /\ stage = "insight"
    /\ IF analysis.priorities = "incomplete"
         THEN /\ EndCycle([success |-> FALSE, insights |-> <<>>, error |-> "KeyError"])
              /\ insights' = insights
              /\ llm_calls' = llm_calls
         ELSE /\ insights' = advisor_insights(analysis, ok)
              /\ llm_calls' = [llm_calls EXCEPT !.insight = IF ok THEN "ok" ELSE "raised"]
              /\ stage' = "persist"
              /\ cycle_result' = cycle_result
    /\ UNCHANGED <<user_id, working_memory, themes, analysis,
                   stored_insights, last_sync_times, store, cycles, cycle_of,
                   io_calls>>
    /\ UNCHANGED <<orchVars, agentVars, taskVars, envVars, histVars, msgVars>>

\* the subsequence of s at the positions in keep
RECURSIVE Keep(_, _, _)
Keep(s, keep, i) ==
    IF i > Len(s) THEN <<>>
    ELSE IF i \in keep THEN <<s[i]>> \o Keep(s, keep, i + 1)
    ELSE Keep(s, keep, i + 1)

\* the documents added for the insights that were written, with the ids
\* the store gives them
RECURSIVE Docs(_, _, _)
Docs(types, u, first) ==
    IF types = <<>> THEN <<>>
    ELSE <<[id |-> first, user_id |-> u, type |-> Head(types), status |-> "new",
            viewed_by |-> None]>>
         \o Docs(Tail(types), u, first + 1)

\* the types of a sequence of insights or documents
Types(s) == [i \in 1..Len(s) |-> s[i].type]

\* a faulty loop of _store_insights: the first failing write ends it
StoreLoop_mutC21(ins, written) ==
    LET failing == {i \in 1..Len(ins) : i \notin written}
        last == IF failing = {} THEN Len(ins)
                ELSE CHOOSE i \in failing : \A j \in failing : i <= j
    IN  [i \in 1..last |-> [type |-> ins[i], ok |-> i \in written]]

\* the loop of _store_insights: one add call for every insight, in order;
\* written is the set of positions whose write succeeds
StoreLoop(ins, written) == [i \in 1..Len(ins) |-> [type |-> ins[i], ok |-> i \in written]]

\* a faulty collection: an add resets the status of the documents it holds
add_mutC26(collection, docs) ==
    [i \in 1..Len(collection) |-> [collection[i] EXCEPT !.status = "new"]] \o docs

\* collection("synthesis_insights").add for each of docs: new documents,
\* the others untouched
add(collection, docs) == collection \o docs

\* _store_insights, then the end of _run_synthesis_cycle: written is the
\* set of positions whose store write succeeds.  The insights returned
\* are the documents written, with the ids the store gave.
_store_insights(written) ==
    /\ stage = "persist"
    /\ written \subseteq 1..Len(insights)
    /\ LET calls == StoreLoop(insights, written)
           kept == Keep(Types(calls), {i \in 1..Len(calls) : calls[i].ok}, 1)
           docs == Docs(kept, user_id, Len(store) + 1)
       IN  /\ io_calls' = [io_calls EXCEPT !.add = calls]
           /\ stored_insights' = docs
           /\ store' = add(store, docs)
           /\ EndCycle([success |-> TRUE, insights |-> docs, error |-> "none"])
    /\ last_sync_times' = [last_sync_times EXCEPT ![user_id] = clock]
    /\ UNCHANGED <<user_id, working_memory, themes, analysis, insights, cycles,
                   llm_calls, cycle_of>>
    /\ UNCHANGED <<orchVars, agentVars, taskVars, envVars, histVars, msgVars>>

\* mark_insight_viewed(insight_id, user_id): the update of the document,
\* which raises for a document the collection does not hold; ok is FALSE
\* when the store cannot be reached.  The caller gets TRUE or FALSE.
\* u is the user_id argument, the user of the session at the API route:
\* it goes into the log line only; viewed_by is history, the user of the
\* call that updated the document last.
mark_insight_viewed(insight_id, u, ok) ==
    /\ store' = IF ok
                THEN [j \in 1..Len(store) |->
                        IF store[j].id = insight_id
                        THEN [store[j] EXCEPT !.status = "viewed", !.viewed_by = u]
                        ELSE store[j]]
                ELSE store
    /\ UNCHANGED <<stage, user_id, working_memory, themes, analysis, insights,
                   stored_insights, last_sync_times, cycle_result, cycles,
                   llm_calls, cycle_of, io_calls>>
    /\ UNCHANGED <<orchVars, agentVars, taskVars, envVars, histVars, msgVars>>

\* time passes
SynthTick ==
    /\ clock < MaxClock
    /\ clock' = clock + 1
    /\ UNCHANGED <<orchVars, agentVars, taskVars, sent, histVars, msgVars, synthVars>>

NextSynth ==
    \/ \E u \in Users \cup {None} : _run_synthesis_cycle(u)
    \/ \E n \in 0..MaxEmails : \E failed \in BOOLEAN : _gather_information(n, failed)
    \/ _update_social_graph
    \/ \E answer \in ThemeAnswers : \E k \in 0..MaxThemes : _perform_thematic_analysis(answer, k)
    \/ \E answer \in PriorityAnswers : \E n \in 0..MaxUrgent : _perform_priority_analysis(answer, n)
    \/ \E ok \in BOOLEAN : _generate_advisor_insights(ok)
    \/ \E written \in SUBSET (1..2) : _store_insights(written)
    \/ SynthTick

(***************************************************************************)
(* GoalAgent: the documents of the user_goals collection and the result    *)
(* of the last request.                                                    *)
(***************************************************************************)
MaxGoals == 2
GoalIds == 1..MaxGoals
\* a request without goal_id in its metadata
NoGoalId == 0
GoalStatus == {"active", "completed", "archived", "paused"}
GoalActions == {"create_goal", "update_goal", "delete_goal", "get_goals", "unknown"}
\* what the document store does in a request: it works, or a call raises
GoalIO == {"ok", "raise"}

GoalResult(success, error) == [success |-> success, error |-> error]

InitGoals ==
    /\ user_goals = << >>
    /\ goal_result = [request |-> [action |-> "none", user_id |-> None, goal_id |-> NoGoalId],
                      success |-> FALSE, error |-> "none"]

\* _create_goal: collection("user_goals").add(goal_data), status active
_create_goal(goals, u, io) ==
    IF io = "raise" \/ DOMAIN goals = GoalIds
    THEN [goals |-> goals, result |-> GoalResult(FALSE, "exception")]
    ELSE LET free == GoalIds \ DOMAIN goals
             id == CHOOSE i \in free : \A j \in free : i <= j
         IN  [goals |-> [g \in DOMAIN goals \cup {id} |->
                            IF g = id THEN [user_id |-> u, status |-> "active"]
                            ELSE goals[g]],
              result |-> GoalResult(TRUE, "none")]

\* _get_goals: a query, the collection as it was
_get_goals(goals, u, io) ==
    [goals |-> goals,
     result |-> IF io = "raise" THEN GoalResult(FALSE, "exception")
                ELSE GoalResult(TRUE, "none")]

\* _update_goal: md.status is the status of the metadata, None without one
_update_goal(goals, u, md, io) ==
    IF md.goal_id = NoGoalId
    THEN [goals |-> goals, result |-> GoalResult(FALSE, "Goal ID is required")]
    ELSE IF io = "raise"
    THEN [goals |-> goals, result |-> GoalResult(FALSE, "exception")]
    ELSE IF md.goal_id \notin DOMAIN goals
    THEN [goals |-> goals, result |-> GoalResult(FALSE, "Goal not found")]
    ELSE IF goals[md.goal_id].user_id # u
    THEN [goals |-> goals, result |-> GoalResult(FALSE, "Unauthorized")]
    ELSE [goals |-> IF md.status = None THEN goals
                    ELSE [goals EXCEPT ![md.goal_id].status = md.status],
          result |-> GoalResult(TRUE, "none")]

\* a faulty _delete_goal: the document of the goal is removed
_delete_goal_mutC27(goals, u, md, io) ==
    IF md.goal_id \in DOMAIN goals /\ goals[md.goal_id].user_id = u
    THEN [goals |-> [g \in DOMAIN goals \ {md.goal_id} |-> goals[g]],
          result |-> GoalResult(TRUE, "none")]
    ELSE [goals |-> goals, result |-> GoalResult(FALSE, "Goal not found")]

\* _delete_goal: the goal is archived through _update_goal
_delete_goal(goals, u, md, io) ==
    IF md.goal_id = NoGoalId
    THEN [goals |-> goals, result |-> GoalResult(FALSE, "Goal ID is required")]
    ELSE _update_goal(goals, u, [goal_id |-> md.goal_id, status |-> "archived"], io)

\* GoalAgent.process: one request of user u
GoalAgent_process(u, action, md, io) ==
    LET r == IF u = None
             THEN [goals |-> user_goals,
                   result |-> GoalResult(FALSE, "User ID is required")]
             ELSE CASE action = "create_goal" -> _create_goal(user_goals, u, io)
                    [] action = "get_goals" -> _get_goals(user_goals, u, io)
                    [] action = "update_goal" -> _update_goal(user_goals, u, md, io)
                    [] action = "delete_goal" -> _delete_goal(user_goals, u, md, io)
                    [] OTHER -> [goals |-> user_goals,
                                 result |-> GoalResult(FALSE, "Unknown action")]
    IN  /\ user_goals' = r.goals
        /\ goal_result' = [request |-> [action |-> action, user_id |-> u,
                                        goal_id |-> md.goal_id],
                           success |-> r.result.success, error |-> r.result.error]
        /\ UNCHANGED <<orchVars, agentVars, taskVars, envVars, histVars, synthVars,
                       chain, contacts, mail, themes_summary>>

\* the requests: only update_goal and delete_goal read the goal_id of the
\* metadata, only update_goal reads its status
NextGoals ==
    \E u \in Users \cup {None} : \E io \in GoalIO :
      \/ \E action \in GoalActions \ {"update_goal", "delete_goal"} :
            GoalAgent_process(u, action, [goal_id |-> NoGoalId, status |-> None], io)
      \/ \E g \in GoalIds \cup {NoGoalId} : \E s \in GoalStatus \cup {None} :
            GoalAgent_process(u, "update_goal", [goal_id |-> g, status |-> s], io)
      \/ \E g \in GoalIds \cup {NoGoalId} :
            GoalAgent_process(u, "delete_goal", [goal_id |-> g, status |-> None], io)

(***************************************************************************)
(* The social graph: the contact documents _update_contact writes, one     *)
(* call for every sender of the mail gathered.  An interaction is the      *)
(* serial number of its mail among those of the sender.                    *)
(***************************************************************************)
\* interaction_history[-50:]
HistoryLimit == 50
\* get_emails_since(user_id, since, max_results=50)
MaxResults == 50
\* the interactions one contact is given in all
MaxHistory == 52
\* an address is the sequence of its characters
Ann == <<"a", "n", "n", "@", "x", ".", "o", "r", "g">>
Senders == {Ann}
\* three normalized addresses, two of them apart by "." and "_" only
KeySenders == {Ann,
               <<"a", ".", "b", "@", "x", ".", "o", "r", "g">>,
               <<"a", "_", "b", "@", "x", ".", "o", "r", "g">>}
\* contact_email.replace(".", "_")
ContactKey(contact_email) ==
    [i \in 1..Len(contact_email) |->
        IF contact_email[i] = "." THEN "_" ELSE contact_email[i]]
\* how many mails of one sender a cycle gathers: one, or a full page
BatchSizes == {1, MaxResults}
\* "Relationship summary unavailable"; a generated summary is the serial
\* number of the last interaction it was made from
Unavailable == 0

InitContacts == contacts = << >>

\* the last n elements of s: s[-n:]
LastN(s, n) == IF Len(s) <= n THEN s ELSE SubSeq(s, Len(s) - n + 1, Len(s))

\* _generate_relationship_summary over the interactions handed to it
_generate_relationship_summary(recent_interactions, llm_ok) ==
    IF llm_ok THEN recent_interactions[Len(recent_interactions)] ELSE Unavailable

\* the document _update_contact sets for a contact that exists: extend
\* works on the list held by contact_data, the slice of the last 50 is
\* bound to a local name only, and relationship_summary is among the
\* fields updated
\* fields updated.  email stays as the document holds it; updated_for is
\* history: the addresses the document was written for.
ExistingContact(contact_data, contact_email, interactions, llm_ok) ==
    LET extended == contact_data.interaction_history \o interactions
        interaction_history == LastN(extended, HistoryLimit)
    IN  [email |-> contact_data.email,
         interaction_history |-> extended,
         total_interactions |-> Len(interaction_history),
         relationship_summary |->
             _generate_relationship_summary(LastN(interaction_history, 10), llm_ok),
         updated_for |-> contact_data.updated_for \cup {contact_email}]

\* the document _update_contact sets for a new contact
NewContact(contact_email, interactions, llm_ok) ==
    [email |-> contact_email,
     interaction_history |-> interactions,
     total_interactions |-> Len(interactions),
     relationship_summary |->
         _generate_relationship_summary(LastN(interactions, 10), llm_ok),
     updated_for |-> {contact_email}]

\* _update_contact(user_id, contact_email, interactions) with k new
\* interactions; io is "raise" when a call of the document store raises,
\* which the function logs
_update_contact(u, contact_email, k, llm_ok, io) ==
    LET id == <<u, ContactKey(contact_email)>>
        exists == id \in DOMAIN contacts
        first == IF exists
                 THEN LET h == contacts[id].interaction_history IN h[Len(h)] + 1
                 ELSE 1
        interactions == [i \in 1..k |-> first + i - 1]
        contact_data == IF exists
                        THEN ExistingContact(contacts[id], contact_email, interactions, llm_ok)
                        ELSE NewContact(contact_email, interactions, llm_ok)
    IN  /\ first + k - 1 <= MaxHistory
        /\ contacts' = IF io = "raise" THEN contacts
                       ELSE [c \in DOMAIN contacts \cup {id} |->
                                IF c = id THEN contact_data ELSE contacts[c]]
        /\ UNCHANGED <<orchVars, agentVars, taskVars, envVars, histVars, synthVars,
                       chain, user_goals, goal_result, mail, themes_summary>>

NextContacts ==
    \E u \in Users : \E s \in Senders : \E k \in BatchSizes :
      \E llm_ok \in BOOLEAN : \E io \in {"ok", "raise"} :
        _update_contact(u, s, k, llm_ok, io)

(***************************************************************************)
(* EmailAgent.process_new_emails: the mail fetched, the records built so   *)
(* far and the batch handled last.  A mail is its id.                      *)
(***************************************************************************)
MaxMails == 7
\* batch_size = 5
BatchSize == 5
\* a key the record does not have
Absent == "absent"
NoScore == 0
\* an id the LLM declares that no mail of the batch has
StrangeId == 99

NoBatch == [emails |-> <<>>, answer |-> [kind |-> "none", items |-> <<>>]]

InitMail ==
    mail = [emails |-> <<>>, i |-> 0, processed_emails |-> <<>>, last |-> NoBatch,
            returned |-> TRUE]

(***************************************************************************)
(* PriorityExtract: the data about the themes that goes into the prompt.   *)
(* A gathered record is its index in working_memory["emails"].             *)
(***************************************************************************)
\* the records one cycle gathers, and so the members one theme can have
MaxMembers == 11
\* email_indices[:10]
SampleLimit == 10

\* a theme as ThemeCluster returns it (_parse_json_themes, _parse_themes and
\* the default theme alike): the list of its member records
ListTheme(k) == [kind |-> "list", emails |-> [i \in 1..k |-> i - 1]]

\* the themes ThemeCluster can return for n gathered records
ThemeLists(n) ==
    LET values == {ListTheme(k) : k \in 0..n}
    IN  {<<a>> : a \in values} \cup {<<a, b>> : a \in values, b \in values}

\* theme_data.get("email_indices", []) if theme_data is a dict, else []
email_indices(theme_data) ==
    IF theme_data.kind = "dict" THEN theme_data.email_indices ELSE <<>>

\* the sample of one theme: the records at the first 10 of its indices
\* that lie below the number of gathered records
theme_emails(theme_data, all_emails) ==
    LET indices == email_indices(theme_data)
        first == SubSeq(indices, 1, IF Len(indices) < SampleLimit THEN Len(indices)
                                    ELSE SampleLimit)
    IN  SelectSeq(first, LAMBDA idx : idx < all_emails)

InitSample ==
    themes_summary = [themes |-> <<>>, all_emails |-> 0, summary |-> <<>>]

\* _perform_priority_analysis up to the prompt: themes_summary holds, for
\* each theme of ths, the sample of its records; n records were gathered
build_themes_summary(ths, n) ==
    /\ themes_summary' =
          [themes |-> ths, all_emails |-> n,
           summary |-> [i \in 1..Len(ths) |-> [emails |-> theme_emails(ths[i], n)]]]
    /\ UNCHANGED <<orchVars, agentVars, taskVars, envVars, histVars, synthVars,
                   chain, contacts, user_goals, goal_result, mail>>

NextSample ==
    \E n \in 1..MaxMembers : \E ths \in ThemeLists(n) : build_themes_summary(ths, n)

InitSide ==
    /\ InitGoals
    /\ InitContacts
    /\ InitMail
    /\ InitSample

Reverse(s) == [k \in 1..Len(s) |-> s[Len(s) + 1 - k]]

\* an analysis item of the LLM's array: the id it declares and the mail
\* its content is about
Item(id, about) == [id |-> id, about |-> about]
Told(ids) == [k \in 1..Len(ids) |-> Item(ids[k], ids[k])]

\* what the LLM gives for a batch: the call raises, text that is no JSON,
\* JSON that is no array of objects, or an array of analysis items: all
\* ids in order, in reverse order, the first one missing, a strange id
\* in front, no item, the first id declared twice, the ids declared on
\* the analyses of the reversed batch
BatchAnswers(ids) ==
    {[kind |-> k, items |-> <<>>] : k \in {"raise", "unparseable", "not_array"}}
    \cup {[kind |-> "array", items |-> items] :
            items \in {Told(ids), Told(Reverse(ids)), Tail(Told(ids)),
                       <<Item(StrangeId, StrangeId)>> \o Told(ids), <<>>,
                       <<Item(Head(ids), StrangeId)>> \o Told(ids),
                       [k \in 1..Len(ids) |-> Item(ids[k], Reverse(ids)[k])]}}

\* the record built from a matching analysis
AnalysedEmail(email, item) ==
    [id |-> email, path |-> "analysis", about |-> item.about,
     intent |-> "Question", urgency_score |-> 3, entities |-> "analysis"]

\* _create_fallback_email: no intent key, no urgency_score key, entities
\* an empty list
_create_fallback_email(email) ==
    [id |-> email, path |-> "fallback", about |-> 0,
     intent |-> Absent, urgency_score |-> NoScore, entities |-> "empty_list"]

\* the record process_new_emails builds for a mail of a batch that raised
FailedBatchEmail(email) ==
    [id |-> email, path |-> "failed_batch", about |-> 0,
     intent |-> "Unknown", urgency_score |-> 1, entities |-> "empty_sets"]

\* a faulty batch extraction: the k-th analysis goes to the k-th mail
_process_email_batch_mutC24(emails, answer) ==
    [raised |-> FALSE,
     records |-> [k \in 1..Len(emails) |->
                    IF answer.kind = "array" /\ k <= Len(answer.items)
                    THEN AnalysedEmail(emails[k], answer.items[k])
                    ELSE _create_fallback_email(emails[k])]]

\* _process_email_batch: every mail gets the first analysis that declares
\* its id, and the fallback record without one; a call that raises, text
\* that does not parse and JSON of another shape give fallback records
\* for the whole batch.  The function itself does not raise on the
\* records get_emails_since builds.
_process_email_batch(emails, answer) ==
    [raised |-> FALSE,
     records |->
        [k \in 1..Len(emails) |->
            LET matching == {j \in 1..Len(answer.items) : answer.items[j].id = emails[k]}
            IN  IF answer.kind = "array" /\ matching # {}
                THEN AnalysedEmail(emails[k],
                         answer.items[CHOOSE j \in matching : \A l \in matching : j <= l])
                ELSE _create_fallback_email(emails[k])]]

\* process_new_emails up to its loop: get_emails_since gives n mails
process_new_emails(n) ==
    /\ mail.returned
    /\ mail' = [emails |-> [k \in 1..n |-> k], i |-> 0, processed_emails |-> <<>>,
                last |-> NoBatch, returned |-> n = 0]
    /\ UNCHANGED <<orchVars, agentVars, taskVars, envVars, histVars, synthVars,
                   chain, contacts, user_goals, goal_result, themes_summary>>

\* emails[i:i+batch_size]
Batch(emails, i) ==
    SubSeq(emails, i + 1, IF i + BatchSize <= Len(emails) THEN i + BatchSize ELSE Len(emails))

\* one turn of the loop of process_new_emails, and its return after the
\* last one
process_batch(answer) ==
    /\ ~mail.returned
    /\ LET n == Len(mail.emails)
           batch == Batch(mail.emails, mail.i)
           to == mail.i + Len(batch)
           r == _process_email_batch(batch, answer)
           batch_results == IF r.raised
                            THEN [k \in 1..Len(batch) |-> FailedBatchEmail(batch[k])]
                            ELSE r.records
       IN  /\ mail' = [mail EXCEPT !.i = to,
                                   !.processed_emails = @ \o batch_results,
                                   !.last = [emails |-> batch, answer |-> answer],
                                   !.returned = to >= n]
    /\ UNCHANGED <<orchVars, agentVars, taskVars, envVars, histVars, synthVars,
                   chain, contacts, user_goals, goal_result, themes_summary>>

NextMail ==
    \/ \E n \in 0..MaxMails : process_new_emails(n)
    \/ /\ ~mail.returned
       /\ \E answer \in BatchAnswers(Batch(mail.emails, mail.i)) : process_batch(answer)

(***************************************************************************)
(* Chains of replies: create_reply and create_error_reply applied to the   *)
(* last message of the chain.                                              *)
(***************************************************************************)
\* a correlation id the first sender chose
OtherId == 99

FirstMessages ==
    {Message(1, type, sender, recipient, <<"request", "", "">>, priority, 0,
             correlation_id, NoId, "ok") :
        type \in {COMMAND, QUERY},
        sender \in {SCHEDULER, SYNTH},
        recipient \in {EMAIL, None},
        priority \in MessagePriority,
        correlation_id \in {NoId, EmptyId, OtherId}}

InitChain == chain \in {<<m>> : m \in FirstMessages}

chain_create_reply(sender, type) ==
    /\ Len(chain) <= MaxChain
    /\ chain' = Append(chain, create_reply(Last(chain), Len(chain) + 1, clock, sender,
                                           <<"result", "true", "">>, type))
    /\ UNCHANGED <<orchVars, agentVars, taskVars, envVars, histVars, synthVars,
                   sideVars>>

chain_create_error_reply(sender) ==
    /\ Len(chain) <= MaxChain
    /\ chain' = Append(chain, create_error_reply(Last(chain), Len(chain) + 1, clock, sender,
                                                 <<"error", "fault", "">>))
    /\ UNCHANGED <<orchVars, agentVars, taskVars, envVars, histVars, synthVars,
                   sideVars>>

NextMsg ==
    \/ \E sender \in {EMAIL, ORCH} : \E type \in {None, STATUS} : chain_create_reply(sender, type)
    \/ \E sender \in {EMAIL, ORCH} : chain_create_error_reply(sender)

(***************************************************************************)
(* The specifications.                                                     *)
(***************************************************************************)
\* the messages handed in from outside: created now
Inputs ==
    {NewMessage(COMMAND, SCHEDULER, SYNTH, NORMAL, clock, "ok"),
     NewMessage(COMMAND, SCHEDULER, EMAIL, NORMAL, clock, "ok"),
     NewMessage(COMMAND, SYNTH, EMAIL, NORMAL, clock, "bad"),
     NewMessage(COMMAND, SCHEDULER, STRANGER, NORMAL, clock, "ok")}

Init ==
    /\ InitOrch
    /\ InitSynth
    /\ InitSide
    /\ chain = <<>>

Next ==
    \/ \E m \in Inputs : send_message(m)
    \/ \E c \in Callers : \E m \in Inputs : send_and_wait(c, m)
    \/ \E c \in Callers : wait_timeout(c)
    \/ \E t \in Tasks : acquire_lock(t)
    \/ \E t \in Tasks : \E o \in {"ok", "raise"} : process_done(t, o)
    \/ \E t \in Tasks : cancel_task(t)
    \/ run
    \/ run_wake
    \/ process_queue
    \/ process_queue_end
    \/ stop

\* the orchestrator, its agents, the dispatch loop and a send_and_wait caller
Spec == Init /\ [][Next]_vars

\* the queue under send_message and the dispatch loop: messages of every
\* priority, created now or earlier
QueueInputs ==
    {NewMessage(EVENT, SCHEDULER, recipient, priority, timestamp, "ok") :
        recipient \in {SYNTH, STRANGER},
        priority \in MessagePriority,
        timestamp \in 0..clock}

NextQueue ==
    \/ \E m \in QueueInputs : send_message(m)
    \/ run
    \/ run_wake
    \/ process_queue
    \/ process_queue_end
    \/ Tick

SpecQueue == Init /\ [][NextQueue]_vars

\* one synthesis cycle after another
SpecSynth == Init /\ [][NextSynth]_vars

\* one synthesis cycle after another at one instant: what a cycle does with
\* the answers it gets does not depend on the clock
NextCycle ==
    \/ \E u \in Users \cup {None} : _run_synthesis_cycle(u)
    \/ \E n \in 0..MaxEmails : \E failed \in BOOLEAN : _gather_information(n, failed)
    \/ _update_social_graph
    \/ \E answer \in ThemeAnswers : \E k \in 0..MaxThemes : _perform_thematic_analysis(answer, k)
    \/ \E answer \in PriorityAnswers : \E n \in 0..MaxUrgent : _perform_priority_analysis(answer, n)
    \/ \E ok \in BOOLEAN : _generate_advisor_insights(ok)
    \/ \E written \in SUBSET (1..2) : _store_insights(written)

SpecCycle == Init /\ [][NextCycle]_vars

\* chains of replies
InitMsg ==
    /\ InitOrch
    /\ InitSynth
    /\ InitSide
    /\ InitChain

SpecMsg == InitMsg /\ [][NextMsg]_vars

\* the dispatch loop under the scheduling the event loop gives: a sleep
\* ends, a drain goes on, an agent's process returns
LiveInputs ==
    {NewMessage(COMMAND, SCHEDULER, SYNTH, NORMAL, clock, "ok"),
     NewMessage(COMMAND, SCHEDULER, STRANGER, NORMAL, clock, "ok")}

NextLive ==
    \/ \E m \in LiveInputs : send_message(m)
    \/ \E o \in {"ok", "raise"} : process_done(LOOP, o)
    \/ run
    \/ run_wake
    \/ process_queue
    \/ process_queue_end
    \/ stop

SpecLive ==
    /\ Init
    /\ [][NextLive]_vars
    /\ WF_vars(run_wake)
    /\ WF_vars(process_queue)
    /\ WF_vars(process_queue_end)
    /\ WF_vars(\E o \in {"ok", "raise"} : process_done(LOOP, o))

(***************************************************************************)
(* The properties.                                                         *)
(***************************************************************************)
\* the place of a queued message in the order of enqueueing
ArrivalPos(id) == CHOOSE i \in 1..Len(arrival) : arrival[i] = id

QueuePairs == {p \in (1..Len(message_queue)) \X (1..Len(message_queue)) : p[1] < p[2]}

\* C1, as the specification states it: after every send_message the queue
\* is sorted by priority, highest first, and messages of equal priority
\* stand in the order in which they were enqueued.
C1_EnqueueOrder ==
    \A p \in QueuePairs :
        LET a == message_queue[p[1]]
            b == message_queue[p[2]]
        IN  /\ _priority_value(a.priority) >= _priority_value(b.priority)
            /\ _priority_value(a.priority) = _priority_value(b.priority)
                 => ArrivalPos(a.id) < ArrivalPos(b.id)

\* C1, as the code has it: after every send_message the queue is sorted by
\* priority, highest first; messages of equal priority stand in the order
\* of their creation timestamps, earliest first; messages equal in both
\* stand in the order in which they were enqueued.
C1_TimestampOrder ==
    \A p \in QueuePairs :
        LET a == message_queue[p[1]]
            b == message_queue[p[2]]
            same == _priority_value(a.priority) = _priority_value(b.priority)
        IN  /\ _priority_value(a.priority) >= _priority_value(b.priority)
            /\ same => a.timestamp <= b.timestamp
            /\ (same /\ a.timestamp = b.timestamp) => ArrivalPos(a.id) < ArrivalPos(b.id)

\* C1's case: two queued messages of equal priority, the one created
\* earlier enqueued later
C1_Witness ==
    \E p \in QueuePairs :
        /\ message_queue[p[1]].priority = message_queue[p[2]].priority
        /\ message_queue[p[1]].timestamp < message_queue[p[2]].timestamp
        /\ ArrivalPos(message_queue[p[1]].id) > ArrivalPos(message_queue[p[2]].id)

\* C2: for every agent, at most one task is inside the agent's process at
\* any time, whoever delivers the messages.
C2_OneProcessPerAgent ==
    \A a \in AgentNames :
        Cardinality({t \in Tasks : pc[t] = "proc" /\ tgt[t] = a}) <= 1

\* C3: a synthesis cycle run for a user ends with at least one insight in
\* its result, whatever the LLM answers and whatever the store does.
C3_AtLeastOneInsight ==
    (stage = "done" /\ user_id # None) => Len(cycle_result.insights) >= 1

\* C4: a send_and_wait that found the loop running, and to whose request a
\* registered agent replied before the timeout, returns that reply.
C4_ReturnsReply ==
    \A c \in Callers :
        (/\ ret[c].state = "returned"
         /\ ret[c].mode = "waited"
         /\ ret[c].replied \in AgentNames)
        => /\ ret[c].value.id # NoId
           /\ ret[c].value.reply_to = ret[c].req.id

\* C5: the pending map holds an entry for a request only while a
\* send_and_wait for that request is in flight: every exit removes it.
C5_PendingOnlyInFlight ==
    \A id \in pending_responses :
        \E c \in Callers : pc[c] \in {"wait", "lock", "proc"} /\ cur[c].id = id

\* C5's case: a send_and_wait that waited has returned, and the map holds
\* no entry for its request
C5_Witness ==
    \E c \in Callers :
        /\ pc[c] = "idle"
        /\ ret[c].state = "returned"
        /\ ret[c].mode = "waited"
        /\ ret[c].req.id # NoId
        /\ ret[c].req.id \notin pending_responses

\* C6: a send_and_wait that finds the loop not running and its recipient
\* not registered returns at once, never suspending, an error reply of
\* kind Error from 'orchestrator' to the request, naming the recipient.
C6_UnknownRecipientDirect ==
    \A c \in Callers :
        (/\ ret[c].mode = "direct"
         /\ TruthyName(ret[c].req.recipient)
         /\ ~Registered(ret[c].req.recipient))
        => /\ pc[c] = "idle"
           /\ ret[c].state = "returned"
           /\ is_error(ret[c].value)
           /\ ret[c].value.sender = ORCH
           /\ ret[c].value.reply_to = ret[c].req.id
           /\ ret[c].value.payload = <<"error", "Unknown agent", ret[c].req.recipient>>

C6_Witness ==
    \E c \in Callers :
        /\ ret[c].mode = "direct"
        /\ ret[c].state = "returned"
        /\ ret[c].req.recipient = STRANGER
        /\ ~Registered(STRANGER)

\* an error reply of the orchestrator to m, addressed to m's sender
FaultReply(m, r) ==
    /\ is_error(r)
    /\ r.sender = ORCH
    /\ r.recipient = m.sender
    /\ r.reply_to = m.id

\* process_message(m) returned r to task t in this step
FaultReturned(t) ==
    IF t = LOOP
      THEN /\ pc[LOOP] = "drain"
           /\ pc'[LOOP] = "drain"
           /\ message_queue # <<>>
           /\ \E i \in 1..Len(message_queue') :
                 /\ FaultReply(Head(message_queue), message_queue'[i])
                 /\ arrival' = Append(SelectSeq(arrival, LAMBDA j : j # Head(message_queue).id),
                                      message_queue'[i].id)
      ELSE /\ pc[t] = "idle"
           /\ pc'[t] = "idle"
           /\ ret'[t].state = "returned"
           /\ FaultReply(ret'[t].req, ret'[t].value)

\* C7: process_message never raises: when the recipient's handle_message
\* raises, process_message returns an error reply from 'orchestrator'
\* addressed to the original sender, and the error counter grows by
\* exactly one.
C7_FaultBecomesErrorReply ==
    [][faults' # faults =>
         /\ faults' = faults + 1
         /\ error_count' = error_count + 1
         /\ \E t \in Tasks : FaultReturned(t)]_vars

\* C7's case: handle_message has raised in the loop's dispatch and in a
\* direct send_and_wait
C7_Witness ==
    /\ faults = 2
    /\ error_count = 2
    /\ loop_faulted
    /\ \E c \in Callers : ret[c].state = "returned" /\ FaultReply(ret[c].req, ret[c].value)

C9_StopEndsRun ==
    (stop_called /\ pc[LOOP] # "init") ~> (pc[LOOP] = "done" /\ ~running)

\* the correlation id of the chain that starts with m
ChainCorrelation(m) == IF Truthy(m.correlation_id) THEN m.correlation_id ELSE m.id

\* C10: a reply to M refers to M's id and carries M's correlation id, or
\* M's id when M has none; every message of a chain of replies carries the
\* same correlation id.
C10_ReplyChainCorrelation ==
    \A i \in 2..Len(chain) :
        /\ chain[i].reply_to = chain[i - 1].id
        /\ chain[i].correlation_id = ChainCorrelation(chain[i - 1])
        /\ chain[i].correlation_id = ChainCorrelation(chain[1])
        /\ chain[i].correlation_id = chain[2].correlation_id

\* C10's case: a reply by create_reply to a reply to a message without a
\* correlation id
C10_Witness ==
    /\ Len(chain) >= 3
    /\ ~Truthy(chain[1].correlation_id)
    /\ chain[2].type # ERROR
    /\ chain[3].type # ERROR
    /\ chain[3].correlation_id = chain[1].id

\* C11: a reply to M by create_reply is addressed to M's sender and has
\* M's priority; a reply by create_error_reply is addressed to M's sender,
\* is of kind Error, has priority High whatever M's priority is, and its
\* payload holds the error text; M is left as it was.
C11_ReplyFields ==
    [][chain' # chain =>
         LET M == Last(chain)
             R == Last(chain')
         IN  /\ Len(chain') = Len(chain) + 1
             /\ SubSeq(chain', 1, Len(chain)) = chain
             /\ R.recipient = M.sender
             /\ R.reply_to = M.id
             /\ IF is_error(R)
                  THEN R.priority = HIGH /\ R.payload = <<"error", "fault", "">>
                  ELSE R.priority = M.priority /\ R.payload = <<"result", "true", "">>]_vars

\* C11's case: a message of priority Low, a reply to it by create_reply and
\* an error reply to that reply
C11_Witness ==
    /\ Len(chain) >= 3
    /\ chain[1].priority = LOW
    /\ ~is_error(chain[2])
    /\ chain[2].priority = LOW
    /\ chain[2].recipient = chain[1].sender
    /\ is_error(chain[3])
    /\ chain[3].priority = HIGH
    /\ chain[3].recipient = chain[2].sender

(***************************************************************************)
(* Broadcasts.  The agents are registered before the first message is      *)
(* handed in, as app/main.py and trigger_synthesis.py do; from then on the *)
(* registry stays as it is.                                                *)
(***************************************************************************)
\* the messages given to broadcast_message: a recipient, if any, is dropped
BroadcastInputs ==
    {NewMessage(COMMAND, sender, EMAIL, NORMAL, clock, metadata) :
        sender \in {SCHEDULER, SYNTH}, metadata \in {"ok", "bad"}}
    \cup {NewMessage(EVENT, SCHEDULER, None, NORMAL, clock, "ok")}

Startup == pc[LOOP] = "init" /\ sent = 0

NextBcast ==
    \/ Startup /\ register_agent(GOAL)
    \/ Startup /\ unregister_agent(EMAIL)
    \/ \E m \in BroadcastInputs : broadcast_message(m)
    \/ \E o \in {"ok", "raise"} : process_done(LOOP, o)
    \/ run
    \/ run_wake
    \/ process_queue
    \/ process_queue_end

SpecBcast == Init /\ [][NextBcast]_vars

\* the agents a broadcast from sender is due to
Audience(sender) == {a \in AgentNames : Registered(a) /\ a # sender}

\* C12: process_message hands a broadcast to every registered agent other
\* than its sender, once each, whether or not agents raise on it; the
\* sender gets no call; process_message returns None and no reply is put
\* on the queue.
C12_BroadcastOnceEach ==
    /\ \A t \in Tasks :
          LET b == bcast[t]
          IN  /\ b.state # "raised"
              /\ \A i, j \in 1..Len(b.to) : b.to[i] = b.to[j] => i = j
              /\ \A i \in 1..Len(b.to) : b.to[i] \in Audience(b.sender)
              /\ b.state = "returned" =>
                    {b.to[i] : i \in 1..Len(b.to)} = Audience(b.sender)
    /\ \A i \in 1..Len(message_queue) : message_queue[i].reply_to = NoId

\* C12's case: a broadcast from a registered agent went to the two other
\* agents, and EmailAgent raised on it
C12_Witness ==
    \E t \in Tasks :
        /\ bcast[t].state = "returned"
        /\ bcast[t].sender = SYNTH
        /\ Registered(SYNTH)
        /\ Len(bcast[t].to) = 2
        /\ \E i \in 1..2 : bcast[t].to[i] = EMAIL
        /\ bcast[t].metadata = "bad"
        /\ handle_message(EMAIL, [NoMsg EXCEPT !.type = COMMAND, !.metadata = "bad"]) = "raise"

(***************************************************************************)
(* The base adapter: Commands and Queries for the agents that keep         *)
(* BaseAgent.handle_message, delivered by the dispatch loop and by a       *)
(* send_and_wait caller; process returns a result, with or without         *)
(* success, or raises; a task may be cancelled while it is suspended.      *)
(***************************************************************************)
AgentInputs ==
    {NewMessage(type, SCHEDULER, SYNTH, NORMAL, clock, "ok") : type \in {COMMAND, QUERY}}
    \cup {NewMessage(COMMAND, SCHEDULER, GOAL, NORMAL, clock, "bad")}

NextAgent ==
    \/ \E m \in AgentInputs : send_message(m)
    \/ \E c \in Callers : \E m \in AgentInputs : send_and_wait(c, m)
    \/ \E c \in Callers : wait_timeout(c)
    \/ \E t \in Tasks : acquire_lock(t)
    \/ \E t \in Tasks : \E o \in {"ok", "fail", "raise"} : process_done(t, o)
    \/ \E t \in Tasks : cancel_task(t)
    \/ run
    \/ run_wake
    \/ process_queue
    \/ process_queue_end

SpecAgent == Init /\ [][NextAgent]_vars

\* process of the agent in whose handle_message task t is has raised in
\* this step
ProcessRaised(t) ==
    /\ pc[t] = "proc"
    /\ pc'[t] # "proc"
    /\ bpos[t] = 0
    /\ agent_error_count'[tgt[t]] = agent_error_count[tgt[t]] + 1

\* the error reply of agent a to m that carries the fault's text
AgentFaultReply(a, m, r) ==
    /\ is_error(r)
    /\ r.sender = a
    /\ r.reply_to = m.id
    /\ r.payload = <<"error", "fault", "">>

\* C13: when process raises on a Command or Query, handle_message returns
\* an error reply of kind Error, from the agent, to the message, with the
\* fault's text; the fault does not reach the orchestrator (its handler
\* counts nothing and process_message returns the agent's reply).
C13_ProcessFaultBecomesErrorReply ==
    [][\A t \in Tasks : ProcessRaised(t) =>
          /\ cur[t].type \in {COMMAND, QUERY}
          /\ faults' = faults
          /\ error_count' = error_count
          /\ processed_count' = processed_count + 1
          /\ IF t = LOOP
               THEN /\ pc'[t] = "drain"
                    /\ \E i \in 1..Len(message_queue') :
                          /\ AgentFaultReply(tgt[t], cur[t], message_queue'[i])
                          /\ Len(message_queue') = Len(message_queue) + 1
               ELSE /\ ret'[t].state = "returned"
                    /\ AgentFaultReply(tgt[t], cur[t], ret'[t].value)]_vars

\* C13's case: process has raised on a Query in the loop's dispatch and on
\* a message in a send_and_wait, and the orchestrator has counted no fault
C13_Witness ==
    /\ \E a \in AgentNames : agent_error_count[a] >= 2
    /\ faults = 0
    /\ error_count = 0
    /\ \E c \in Callers :
          /\ ret[c].state = "returned"
          /\ is_error(ret[c].value)
          /\ ret[c].value.sender = ret[c].req.recipient
          /\ ret[c].req.type = QUERY

\* the agents that keep BaseAgent.handle_message
BaseAgents == {a \in AgentNames : Kind(a) = "base"}

\* handle_message has returned to task t in this step
HandleReturned(t) ==
    /\ pc[t] = "proc"
    /\ IF t = LOOP THEN pc'[t] = "drain" ELSE pc'[t] = "idle" /\ ret'[t].state = "returned"

\* C14: for an agent with the base adapter, a handled Command or Query
\* adds one to exactly one of run_count and error_count and leaves the
\* status Idle when process returned a result, Error when it raised; the
\* status is Processing only while a process invocation is in flight
\* under the agent's lock.
C14_StatusAndCounters ==
    [][\A a \in BaseAgents :
          /\ status'[a] = PROCESSING =>
                \E t \in Tasks : pc'[t] = "proc" /\ tgt'[t] = a /\ lock'[a] = t
          /\ \A t \in Tasks : (HandleReturned(t) /\ tgt[t] = a) =>
                \/ /\ run_count'[a] = run_count[a] + 1
                   /\ agent_error_count'[a] = agent_error_count[a]
                   /\ status'[a] = IDLE
                \/ /\ agent_error_count'[a] = agent_error_count[a] + 1
                   /\ run_count'[a] = run_count[a]
                   /\ status'[a] = AGENT_ERROR]_vars

(***************************************************************************)
(* The order of the stages of a synthesis cycle.                           *)
(***************************************************************************)
\* the place of a stage in Gather, GraphUpdate, ThemeCluster,
\* PriorityExtract, InsightGenerate, Persist, Done
StageRank(s) ==
    CASE s = "idle" -> 0
      [] s = "gather" -> 1
      [] s = "graph" -> 2
      [] s = "themes" -> 3
      [] s = "priority" -> 4
      [] s = "insight" -> 5
      [] s = "persist" -> 6
      [] s = "done" -> 7

\* C15: within one synthesis cycle the stages run in the order Gather,
\* GraphUpdate, ThemeCluster, PriorityExtract, InsightGenerate, Persist,
\* Done, whichever fallbacks are taken: every step that leaves a stage
\* enters the next one, so no stage runs twice and none is re-entered.  The
\* only other steps begin a cycle (Gather, from outside a cycle), reject a
\* command without user id before any stage, or end a cycle whose
\* InsightGenerate raised.
C15_StagesInOrder ==
    [][stage' # stage =>
          \/ StageRank(stage') = StageRank(stage) + 1
          \/ stage \in {"idle", "done"} /\ stage' \in {"gather", "done"}
          \/ stage = "insight" /\ stage' = "done" /\ ~cycle_result'.success]_vars

\* a second cycle went through every stage with fallbacks taken at
\* ThemeCluster and at PriorityExtract
C15_Witness ==
    /\ stage = "done"
    /\ cycles = 2
    /\ cycle_result.success
    /\ themes.from = "default"
    /\ analysis.from = "skeleton"
    /\ llm_calls.insight = "raised"

(***************************************************************************)
(* The trigger surface: the scheduler's timer job and the manual trigger   *)
(* of the API enqueue a START_SYNTHESIS_CYCLE command; the dispatch loop   *)
(* hands it to ProactiveSynthesisAgent, whose process runs the cycle.      *)
(* Every command begins at most one cycle, so MaxSends cycles suffice      *)
(* (MaxCycles is no smaller).                                              *)
(***************************************************************************)
START_SYNTHESIS_CYCLE == "START_SYNTHESIS_CYCLE"
API == "API"

\* a metadata bag that holds the action START_SYNTHESIS_CYCLE and user_id u
StartMeta(u) == IF u = "u1" THEN "start u1" ELSE "start u2"

\* metadata.get("action") and metadata.get("user_id"): "ok" is a bag
\* without these keys (the default bag of Message is empty)
MetaAction(md) == IF \E u \in Users : md = StartMeta(u) THEN START_SYNTHESIS_CYCLE ELSE None
MetaUser(md) == IF \E u \in Users : md = StartMeta(u) THEN CHOOSE u \in Users : md = StartMeta(u) ELSE None

\* the command of the scheduler's job: action and user_id in the payload,
\* no metadata, priority Normal
SchedulerTrigger(u) ==
    Message(FreshId({}), COMMAND, SCHEDULER, SYNTH, <<START_SYNTHESIS_CYCLE, u, "scheduler">>,
            NORMAL, clock, NoId, NoId, "ok")

\* the command of the API's manual trigger: action and user_id in the
\* payload and in the metadata, priority High
ManualTrigger(u) ==
    Message(FreshId({}), COMMAND, API, SYNTH, <<START_SYNTHESIS_CYCLE, u, "manual">>,
            HIGH, clock, NoId, NoId, StartMeta(u))

\* ProactiveSynthesisAgent.process up to the first await of the cycle: the
\* action is read from the context's metadata, which handle_message took
\* from the message's metadata
process(t) ==
    /\ LoopYields
    /\ pc[t] = "proc"
    /\ tgt[t] = SYNTH
    /\ MetaAction(cur[t].metadata) = START_SYNTHESIS_CYCLE
    /\ cycle_of # cur[t].id
    /\ StartCycle(MetaUser(cur[t].metadata), cur[t].id)
    /\ UNCHANGED <<orchVars, agentVars, taskVars, envVars, histVars, msgVars>>

\* ProactiveSynthesisAgent.process returns: the result of the cycle, or at
\* once "Unknown action for ProactiveSynthesisAgent" (success false)
process_returns(t) ==
    /\ pc[t] = "proc"
    /\ tgt[t] = SYNTH
    /\ IF MetaAction(cur[t].metadata) = START_SYNTHESIS_CYCLE
         THEN /\ cycle_of = cur[t].id
              /\ stage = "done"
              /\ process_done(t, IF cycle_result.success THEN "ok" ELSE "fail")
         ELSE process_done(t, "fail")

\* a step of the run task: of the dispatch loop, or of the cycle it awaits
TriggerStep ==
    \/ run
    \/ run_wake
    \/ process_queue
    \/ process_queue_end
    \/ process(LOOP)
    \/ process_returns(LOOP)
    \/ \E n \in 0..1 : _gather_information(n, FALSE)
    \/ _update_social_graph
    \/ _perform_thematic_analysis("json", 1)
    \/ \E n \in 0..1 : _perform_priority_analysis("json", n)
    \/ \E ok \in BOOLEAN : _generate_advisor_insights(ok)
    \/ _store_insights(1..Len(insights))

NextTrigger ==
    \/ \E u \in Users : send_message(SchedulerTrigger(u))
    \/ \E u \in Users : send_message(ManualTrigger(u))
    \/ TriggerStep

\* the event loop runs the run task whenever it can go on: it is started
\* at startup, a sleep ends, a drain goes on, and every await of the cycle
\* returns or raises.  The run task is one task, so at most one of its
\* steps is possible at a time.
SpecTrigger ==
    /\ Init
    /\ [][NextTrigger]_vars
    /\ WF_vars(TriggerStep)

\* the ids a command of the trigger surface can bear: when it is built at
\* most the earlier commands and a reply to each are alive
TriggerIds == 1..(2 * MaxSends)

\* a START_SYNTHESIS_CYCLE command with id id for user u, from sender, is
\* queued for the registered Synthesis agent
TriggerQueued(id, u, sender) ==
    /\ Registered(SYNTH)
    /\ \E i \in 1..Len(message_queue) :
          LET m == message_queue[i]
          IN  /\ m.id = id
              /\ m.type = COMMAND
              /\ m.sender = sender
              /\ m.recipient = SYNTH
              /\ m.payload[1] = START_SYNTHESIS_CYCLE
              /\ m.payload[2] = u

\* the Synthesis agent runs a cycle for user u on behalf of command id
CycleEntered(id, u) == cycle_of = id /\ user_id = u /\ stage # "idle"

\* C16: a START_SYNTHESIS_CYCLE command that the scheduler's job or the
\* manual trigger enqueued for the registered Synthesis agent, with action
\* and user_id in its payload, is eventually dispatched and makes the agent
\* run a synthesis cycle for that user.
C16_TriggerRunsCycle ==
    \A id \in TriggerIds : \A u \in Users : \A sender \in {SCHEDULER, API} :
        TriggerQueued(id, u, sender) ~> CycleEntered(id, u)

\* the part of C16 that the code keeps: the manual trigger's command, which
\* repeats action and user_id in its metadata, leads to a cycle
ManualTriggerRunsCycle ==
    \A id \in TriggerIds : \A u \in Users :
        TriggerQueued(id, u, API) ~> CycleEntered(id, u)

(***************************************************************************)
(* The synthesis cycle on an empty working memory and the insights of      *)
(* InsightGenerate.                                                        *)
(***************************************************************************)
\* Gather of the current cycle has returned, and returned no record
GatheredNone ==
    /\ working_memory.emails = 0
    /\ \/ stage \in {"graph", "themes", "priority", "insight", "persist"}
       \/ stage = "done" /\ user_id # None /\ cycles > 0

\* how many insights of type ty the sequence s holds
CountType(s, ty) == Cardinality({i \in 1..Len(s) : s[i] = ty})

\* C17, as the specification states it: when Gather returns zero records
\* no LLM call is made for ThemeCluster, PriorityExtract or InsightGenerate
\* and the insight set of the cycle is empty.
C17_EmptyGatherNoLLM ==
    GatheredNone => llm_calls = NoCalls /\ insights = <<>>

\* C17, as the code has it: when Gather returns zero records only
\* ThemeCluster is short-circuited (no LLM call, no theme); PriorityExtract
\* still asks the LLM, and so does InsightGenerate unless its prompt
\* raises, and a cycle that reaches Persist holds at least one insight.
C17_EmptyGatherSkipsThemesOnly ==
    GatheredNone =>
        /\ llm_calls.themes = "none"
        /\ stage \in {"priority", "insight", "persist", "done"} => themes = [count |-> 0, from |-> "empty"]
        /\ stage \in {"insight", "persist", "done"} => llm_calls.priority # "none"
        /\ stage = "persist" => llm_calls.insight # "none" /\ insights # <<>>

\* a cycle on zero records is about to persist the briefing that the LLM
\* wrote from an analysis that the LLM made
C17_Witness ==
    /\ GatheredNone
    /\ stage = "persist"
    /\ llm_calls = [themes |-> "none", priority |-> "ok", insight |-> "ok"]
    /\ insights = <<"daily_briefing">>

\* C18: a cycle whose working memory holds zero gathered records produces
\* no theme, no priority item and no insight other than the single
\* daily_briefing; it never produces a priority_alert, whatever the LLM
\* returns.
C18_EmptyGatherOnlyBriefing ==
    GatheredNone =>
        /\ themes.count = 0
        /\ analysis.urgent = 0
        /\ insights \in {<<>>, <<"daily_briefing">>}

\* C19: when the narrative call of InsightGenerate succeeds the stage emits
\* exactly one daily_briefing, and a priority_alert if and only if the
\* priority analysis holds an urgent item, never more than one.
C19_BriefingAndAlert ==
    (stage = "persist" /\ llm_calls.insight = "ok") =>
        /\ CountType(insights, "daily_briefing") = 1
        /\ CountType(insights, "priority_alert") = (IF analysis.urgent > 0 THEN 1 ELSE 0)

\* C20: when the narrative call of InsightGenerate fails the stage returns
\* exactly one insight, of type status_update, and the cycle goes on to
\* Persist.
C20_FailureGivesStatusUpdate ==
    [][(stage = "insight" /\ llm_calls'.insight = "raised") =>
          /\ insights' = <<"status_update">>
          /\ stage' = "persist"]_vars

\* the cycle persisted the status_update of a failed narrative call
C20_Witness ==
    /\ stage = "done"
    /\ llm_calls.insight = "raised"
    /\ cycle_result.success
    /\ Types(stored_insights) = <<"status_update">>


\* the GoalAgent under requests of every kind
SpecGoals == Init /\ [][NextGoals]_vars

\* the contact documents under updates of every size
SpecContacts == Init /\ [][NextContacts]_vars

\* process_new_emails under every answer of the LLM
\* the contacts of one user, written for senders whose addresses are alike
NextKeys ==
    \E s \in KeySenders : _update_contact("u1", s, 1, TRUE, "ok")

SpecKeys == Init /\ [][NextKeys]_vars

SpecMail == Init /\ [][NextMail]_vars

\* PriorityExtract's data about the themes, for the themes ThemeCluster
\* can return
SpecSample == Init /\ [][NextSample]_vars


(***************************************************************************)
(* Persist, the watermark, the contact history, batch extraction.          *)
(***************************************************************************)
\* the types of the calls that succeeded, in the order of the calls
Succeeded(calls) == Types(SelectSeq(calls, LAMBDA c : c.ok))

\* C21: Persist tries to write every produced insight, in order, and
\* returns exactly those whose write succeeded, in the original order: a
\* failed write removes that insight only, the documents written before stay
\* and the later ones are still written.  Every insight returned has status
\* new and carries the identifier the store gave it.
C21_PersistReturnsWritten ==
    [][(stage = "persist" /\ stage' # "persist") =>
          LET calls == io_calls'.add
          IN  /\ Len(calls) = Len(insights)
              /\ \A i \in 1..Len(calls) : calls[i].type = insights[i]
              /\ Types(stored_insights') = Succeeded(calls)
              /\ store' = store \o stored_insights'
              /\ cycle_result'.insights = stored_insights'
              /\ \A k \in 1..Len(stored_insights') :
                    /\ stored_insights'[k].status = "new"
                    /\ \A j \in 1..Len(store) : store[j].id # stored_insights'[k].id
                    /\ \A j \in 1..Len(stored_insights') :
                          j # k => stored_insights'[j].id # stored_insights'[k].id]_vars

\* a cycle is over whose first write failed and whose second succeeded
C21_Witness ==
    /\ stage = "done"
    /\ Len(io_calls.add) = 2
    /\ ~io_calls.add[1].ok
    /\ io_calls.add[2].ok
    /\ Len(stored_insights) = 1
    /\ stored_insights[1].type = io_calls.add[2].type
    /\ \E j \in 1..Len(store) : store[j] = stored_insights[1]


\* cycles of the users as time passes: a cycle reaches Persist or aborts
\* in PriorityExtract
NextWatermark ==
    \/ \E u \in Users : _run_synthesis_cycle(u)
    \/ \E n \in {0, 1} : \E failed \in BOOLEAN : _gather_information(n, failed)
    \/ _update_social_graph
    \/ \E k \in {0, 1} : _perform_thematic_analysis("json", k)
    \/ \E answer \in {"json", "incomplete"} : _perform_priority_analysis(answer, 0)
    \/ _generate_advisor_insights(TRUE)
    \/ \E written \in {{}, {1}} : _store_insights(written)
    \/ SynthTick

SpecWatermark == Init /\ [][NextWatermark]_vars

\* C22: Gather asks for the mail since the completion time the most recent
\* cycle of the same user that reached Persist recorded, and since 24 hours
\* before now when there is none.  A watermark changes only when a cycle of
\* its user completes Persist: it becomes the time of completion, it never
\* moves backwards, and the watermarks of the other users stay.
C22_WatermarkPerUser ==
    [][/\ (stage = "gather" /\ stage' # "gather") =>
            /\ io_calls'.mail.called
            /\ io_calls'.mail.since =
                  IF last_sync_times[user_id] = NoSync THEN clock - DAY
                  ELSE last_sync_times[user_id]
       /\ (stage = "persist" /\ stage' = "done") =>
            last_sync_times'[user_id] = clock
       /\ \A u \in Users :
            last_sync_times'[u] # last_sync_times[u] =>
                /\ stage = "persist" /\ stage' = "done"
                /\ u = user_id
                /\ last_sync_times'[u] = clock
                /\ last_sync_times'[u] >= last_sync_times[u]]_vars

\* a later cycle of a user has asked for the mail since the completion of
\* the earlier one, while the other user has no watermark
C22_Witness ==
    /\ stage = "graph"
    /\ io_calls.mail.called
    /\ last_sync_times[user_id] # NoSync
    /\ io_calls.mail.since = last_sync_times[user_id]
    /\ clock > last_sync_times[user_id]
    /\ \E u \in Users : u # user_id /\ last_sync_times[u] = NoSync


\* C23: the interaction history of a contact document holds at most 50
\* entries after any sequence of updates.
C23_HistoryAtMost50 ==
    \A c \in DOMAIN contacts : Len(contacts[c].interaction_history) <= HistoryLimit


\* C24: batch extraction gives exactly one record for every mail, with the
\* id of the mail and in the order of the mails, whatever the LLM answers.
\* A mail gets the analysis that declares its id, wherever that stands in
\* the answer, and a fallback record of its own when none declares it.
C24_OneRecordPerMail ==
    LET processed == mail.processed_emails
        batch == mail.last.emails
        answer == mail.last.answer
        start == mail.i - Len(batch)
    IN  /\ Len(processed) = mail.i
        /\ mail.returned => Len(processed) = Len(mail.emails)
        /\ \A k \in 1..Len(processed) : processed[k].id = mail.emails[k]
        /\ \A k \in 1..Len(batch) :
              LET declaring == {j \in 1..Len(answer.items) : answer.items[j].id = batch[k]}
                  record == processed[start + k]
              IN  IF answer.kind = "array" /\ declaring # {}
                  THEN /\ record.path = "analysis"
                       /\ \E j \in declaring : record.about = answer.items[j].about
                  ELSE record.path # "analysis"

\* more mails than one batch holds have been handled, the answer for the
\* last batch listed the ids in another order than the mails, and there are
\* analysed and fallback records
C24_Witness ==
    /\ mail.returned
    /\ Len(mail.emails) > BatchSize
    /\ mail.last.answer.kind = "array"
    /\ Len(mail.last.answer.items) = Len(mail.last.emails)
    /\ mail.last.answer.items[1].id # mail.last.emails[1]
    /\ mail.processed_emails[Len(mail.emails)].path = "analysis"
    /\ mail.processed_emails[Len(mail.emails)].about = mail.emails[Len(mail.emails)]
    /\ \E k \in 1..BatchSize : mail.processed_emails[k].path = "fallback"

\* C25: every record of a fallback path (an id no analysis declares, an
\* answer that does not parse, a call that raises, a batch that failed)
\* has intent Unknown, urgency_score 1 and empty entity sets.
C25_FallbackShape ==
    \A k \in 1..Len(mail.processed_emails) :
        LET record == mail.processed_emails[k]
        IN  record.path # "analysis" =>
                /\ record.intent = "Unknown"
                /\ record.urgency_score = 1
                /\ record.entities = "empty_sets"


\* cycles that reach Persist, and insights marked as viewed at any moment
NextViewed ==
    \/ \E u \in Users : _run_synthesis_cycle(u)
    \/ \E n \in {0, 1} : _gather_information(n, FALSE)
    \/ _update_social_graph
    \/ \E k \in {0, 1} : _perform_thematic_analysis("json", k)
    \/ \E n \in {0, 1} : _perform_priority_analysis("json", n)
    \/ \E ok \in BOOLEAN : _generate_advisor_insights(ok)
    \/ \E written \in SUBSET (1..2) : _store_insights(written)
    \/ \E id \in 1..(Len(store) + 1) : \E u \in Users : \E ok \in BOOLEAN :
          mark_insight_viewed(id, u, ok)

SpecViewed == Init /\ [][NextViewed]_vars

\* C26: the status of an insight only moves from new to viewed.  Once an
\* insight is viewed, no later step of the synthesis agent (marking it or
\* another one again, the writes of a later Persist) sets it back to new
\* or takes its document away.
C26_ViewedStaysViewed ==
    [][\A j \in 1..Len(store) :
          /\ Len(store') >= j
          /\ store'[j].id = store[j].id
          /\ store'[j].status \in {"new", "viewed"}
          /\ store[j].status = "viewed" => store'[j].status = "viewed"]_vars

\* an insight of the first cycle is viewed and the Persist of the second
\* cycle has written a new one
C26_Witness ==
    /\ cycles = 2
    /\ stage = "done"
    /\ stored_insights # <<>>
    /\ \E j \in 1..Len(store) :
          /\ store[j].status = "viewed"
          /\ \A k \in 1..Len(stored_insights) : stored_insights[k].id > store[j].id
    /\ \E j \in 1..Len(store) : store[j].status = "new" /\ store[j].id = stored_insights[1].id


(***************************************************************************)
(* Goals, a failing mail agent, relationship summaries, the end of a       *)
(* drain.                                                                  *)
(***************************************************************************)
\* C27: no request to the GoalAgent removes a goal document.  delete_goal
\* on a goal of the requesting user sets its status to archived and keeps
\* the document; on a goal that does not exist or belongs to another user
\* it gives an error result and leaves the collection as it was.
C27_DeleteArchives ==
    [][/\ \A g \in DOMAIN user_goals :
            /\ g \in DOMAIN user_goals'
            /\ user_goals'[g].user_id = user_goals[g].user_id
       /\ goal_result'.request.action = "delete_goal" =>
            LET u == goal_result'.request.user_id
                g == goal_result'.request.goal_id
                own == g \in DOMAIN user_goals /\ user_goals[g].user_id = u
            IN  /\ ~own => ~goal_result'.success
                /\ IF goal_result'.success
                   THEN user_goals' = [user_goals EXCEPT ![g].status = "archived"]
                   ELSE user_goals' = user_goals]_vars

\* a user's delete_goal has succeeded on a goal of theirs, which is there
\* and archived, next to a goal of the other user
C27_Witness ==
    /\ goal_result.request.action = "delete_goal"
    /\ goal_result.success
    /\ goal_result.request.goal_id \in DOMAIN user_goals
    /\ user_goals[goal_result.request.goal_id].status = "archived"
    /\ user_goals[goal_result.request.goal_id].user_id = goal_result.request.user_id
    /\ \E g \in DOMAIN user_goals : user_goals[g].user_id # goal_result.request.user_id


MailFailureGoesOn ==
    [][(stage = "gather" /\ io_calls'.mail.failed) =>
          /\ working_memory'.emails = 0
          /\ stage' = "graph"]_vars


\* C29: when the summary of a relationship cannot be regenerated, a contact
\* that exists keeps the summary it had; the marker "unavailable" is only
\* written for a contact that did not exist before.
C29_ExistingKeepsSummary ==
    [][\A c \in DOMAIN contacts :
          contacts'[c].relationship_summary = Unavailable =>
              contacts[c].relationship_summary = Unavailable]_vars


\* C30: every drain of the queue terminates: the chain of replies that
\* process_queue puts back into the queue is finite and the queue is
\* eventually empty, also when neither the sender nor the recipient of a
\* message is registered.
C30_DrainTerminates ==
    (pc[LOOP] = "drain") ~> (pc[LOOP] = "sleep" /\ message_queue = <<>>)


(***************************************************************************)
(* Direct calls, deliveries, the order of dispatch, events and replies.    *)
(***************************************************************************)
\* the message is among those queued
Queued(m) == \E i \in 1..Len(message_queue) : message_queue[i].id = m.id

\* C31: when send_and_wait is called while the dispatch loop is not
\* running, the message it sent is no longer in the queue once the call
\* has returned.
C31_DirectCallDrains ==
    \A c \in Callers :
        (ret[c].mode = "direct" /\ ret[c].state = "returned") => ~Queued(ret[c].req)

\* task t is inside handle_message of the recipient of the message m
Delivering(t, m) ==
    /\ m.id # NoId
    /\ pc[t] \in {"lock", "proc"}
    /\ cur[t].id = m.id
    /\ tgt[t] = m.recipient

\* C32: a message handed to the orchestrator is delivered to handle_message
\* of its recipient at most once.  A second delivery shows in two ways: two
\* tasks are inside handle_message of the recipient with the same message,
\* or the dispatch loop is inside it with a message to which a direct
\* send_and_wait has already returned the recipient's reply.
C32_DeliveredAtMostOnce ==
    /\ \A t, u \in Tasks : (t # u /\ Delivering(t, cur[t])) => ~Delivering(u, cur[t])
    /\ \A c \in Callers :
          (/\ ret[c].mode = "direct"
           /\ ret[c].state = "returned"
           /\ ret[c].value.id # NoId
           /\ ret[c].value.sender = ret[c].req.recipient)
          => ~Delivering(LOOP, ret[c].req)


\* producers of commands of every priority, before and during a drain
DrainInputs ==
    {NewMessage(COMMAND, SCHEDULER, SYNTH, priority, clock, "ok") :
        priority \in MessagePriority}

NextDrain ==
    \/ \E m \in DrainInputs : send_message(m)
    \/ \E m \in DrainInputs : send_message_in_drain(m)
    \/ \E o \in {"ok", "raise"} : process_done(LOOP, o)
    \/ run
    \/ run_wake
    \/ process_queue
    \/ process_queue_end

SpecDrain == Init /\ [][NextDrain]_vars

\* C33: whenever the dispatch loop takes a message from the queue, no
\* message queued at that moment has a higher priority, also when messages
\* were enqueued (by producers, or replies by the loop) while an earlier
\* message of the same drain was handled.
C33_TakesHighestPriority ==
    [][\A i \in 1..Len(message_queue) :
          (/\ pc[LOOP] = "drain"
           /\ \A j \in 1..Len(message_queue') : message_queue'[j].id # message_queue[i].id)
          => \A j \in 1..Len(message_queue) :
                _priority_value(message_queue[i].priority)
                    >= _priority_value(message_queue[j].priority)]_vars

\* the drain has handled a message and goes on; in front of the queue is a
\* Critical message a producer sent during the drain, behind it a message
\* of lower priority sent before
C33_Witness ==
    /\ pc[LOOP] = "drain"
    /\ sent = MaxSends + 1
    /\ processed_count >= 1
    /\ Len(message_queue) >= 2
    /\ Head(message_queue).priority = CRITICAL
    /\ Head(message_queue).reply_to = NoId
    /\ Head(message_queue).id = arrival[Len(arrival)]
       \/ \E i \in 2..Len(message_queue) :
             /\ message_queue[i].reply_to # NoId
             /\ ArrivalPos(message_queue[i].id) > ArrivalPos(Head(message_queue).id)
    /\ \E i \in 2..Len(message_queue) :
          /\ message_queue[i].reply_to = NoId
          /\ _priority_value(message_queue[i].priority) < _priority_value(CRITICAL)
          /\ ArrivalPos(message_queue[i].id) < ArrivalPos(Head(message_queue).id)


\* events, commands and queries for the registered agents, sent to the
\* queue or through send_and_wait
EventInputs ==
    {NewMessage(type, SCHEDULER, recipient, NORMAL, clock, "ok") :
        type \in {EVENT, COMMAND, QUERY}, recipient \in {SYNTH, EMAIL}}

NextEvent ==
    \/ \E m \in EventInputs : send_message(m)
    \/ \E c \in Callers : \E m \in EventInputs : send_and_wait(c, m)
    \/ \E t \in Tasks : acquire_lock(t)
    \/ \E t \in Tasks : \E o \in {"ok", "raise"} : process_done(t, o)
    \/ run
    \/ run_wake
    \/ process_queue
    \/ process_queue_end

SpecEvent == Init /\ [][NextEvent]_vars

\* a well-formed Event for a registered agent
EventForAgent(m) ==
    /\ m.type = EVENT
    /\ m.metadata = "ok"
    /\ TruthyName(m.recipient)
    /\ Registered(m.recipient)

\* C34: the handling of an Event by an agent takes no guard: it completes
\* at once, returns nothing and leaves the agent's status, counters and
\* guard as they are, also while a Command holds the guard of that agent.
\* So for the dispatch loop (nothing is put back into the queue, the drain
\* goes on) and for a direct send_and_wait (it returns None).
C34_EventTakesNoGuard ==
    [][/\ (pc[LOOP] = "drain" /\ message_queue # <<>> /\ EventForAgent(Head(message_queue)))
          => /\ pc'[LOOP] = "drain"
             /\ message_queue' = Tail(message_queue)
             /\ <<status, run_count, agent_error_count, lock>>'
                  = <<status, run_count, agent_error_count, lock>>
       /\ \A c \in Callers :
            (/\ pc[c] = "idle"
             /\ ret'[c] # ret[c]
             /\ ret'[c].mode = "direct"
             /\ EventForAgent(ret'[c].req))
            => /\ ret'[c].state = "returned"
               /\ ret'[c].value = NoMsg
               /\ pc'[c] = "idle"
               /\ <<status, run_count, agent_error_count, lock>>'
                    = <<status, run_count, agent_error_count, lock>>]_vars

\* the loop has handled an Event for the agent whose guard the Command of a
\* caller holds: the caller is still inside process, the Event is gone from
\* the queue and counted as processed
C34_Witness ==
    /\ \E c \in Callers :
          /\ pc[c] = "proc"
          /\ tgt[c] = SYNTH
          /\ lock[SYNTH] = c
          /\ message_queue = <<cur[c]>>
    /\ pc[LOOP] = "drain"
    /\ sent = 2
    /\ processed_count = 1
    /\ status[SYNTH] = PROCESSING
    /\ run_count[SYNTH] = 0


\* C35: a Command or a Query handled by a registered agent always gives a
\* reply: the direct send_and_wait that delivered it returns a message
\* whose reply_to is the id of the request and whose recipient is the
\* sender of the request.
C35_CommandOrQueryReplied ==
    \A c \in Callers :
        (/\ ret[c].mode = "direct"
         /\ ret[c].state = "returned"
         /\ ret[c].req.type \in {COMMAND, QUERY}
         /\ ret[c].req.metadata = "ok"
         /\ Registered(ret[c].req.recipient))
        => /\ ret[c].value # NoMsg
           /\ ret[c].value.reply_to = ret[c].req.id
           /\ ret[c].value.recipient = ret[c].req.sender


(***************************************************************************)
(* The end of a cycle, the samples of the themes, the keys of the contacts *)
(* and the owner of an insight.                                            *)
(***************************************************************************)

\* C36: the watermark of the user is set at the end of every cycle run for
\* that user, however the cycle went: whenever a cycle of a user ends, the
\* watermark of that user is the time of the end.
C36_WatermarkAtEveryEnd ==
    [][(stage \in {"gather", "graph", "themes", "priority", "insight", "persist"}
        /\ stage' = "done"
        /\ user_id \in Users)
       => last_sync_times'[user_id] = clock]_vars


\* C37: PriorityExtract takes, for every theme, a sample of at most 10 of
\* the member records of that theme, and a theme with at least one member
\* gives at least one record to the data sent for classification.
C37_ThemeSample ==
    \A i \in 1..Len(themes_summary.themes) :
        LET members == themes_summary.themes[i].emails
            sample == themes_summary.summary[i].emails
        IN  /\ Len(sample) <= SampleLimit
            /\ \A k \in 1..Len(sample) : \E j \in 1..Len(members) : members[j] = sample[k]
            /\ Len(members) >= 1 => Len(sample) >= 1


\* C38: with at least one gathered record ThemeCluster returns at least one
\* theme, whatever the LLM answered.
C38_AtLeastOneTheme ==
    (themes.from \notin {"none", "empty"} /\ working_memory.emails >= 1)
        => themes.count >= 1


\* C39: two senders whose normalized addresses differ are two Contact
\* documents of the user: no document is written for more than one
\* address, and the document found for an address carries that address.
C39_OneSenderOneDocument ==
    \A id \in DOMAIN contacts :
        /\ Cardinality(contacts[id].updated_for) <= 1
        /\ \A e \in contacts[id].updated_for : contacts[id].email = e


\* C40: mark_insight_viewed(insight_id, user_id) changes the status of an
\* insight only if that insight belongs to user_id: an insight that goes
\* from new to viewed does so in a call made for its owner.
C40_OnlyOwnerMarksViewed ==
    [][\A j \in 1..Len(store) :
          (store[j].status = "new" /\ store'[j].status = "viewed")
              => store'[j].viewed_by = store[j].user_id]_vars

=============================================================================
